---- MODULE Spec2Model ----
(***************************************************************************)
(* Streaming regular path query evaluation (S-PATH) of s-graffito's        *)
(* query-processor: the RPQ compiler (Thompson construction, subset        *)
(* construction, partition refinement) and the windowed operator           *)
(* regular_path_query with its product graph, spanning trees and Delta     *)
(* index.                                                                  *)
(***************************************************************************)
EXTENDS Integers, Sequences, FiniteSets, Bags, TLC

VARIABLES
    \* --- compiler pipeline (query/parser/mod.rs, query/automata/mod.rs)
    query,        \* parse tree handed to parse_path
    stage,        \* "query" | "nfa" | "dfa" | "min"
    nfa,          \* result of parse_path
    dfa,          \* result of determinize
    mdfa,         \* result of minimize
    \* --- one application of a Thompson helper
    opKind,       \* "none" | "concatenation" | "alternation" | "kleene_star" | "kleene_plus"
    opLabel,      \* label given to transition
    opLhs, opRhs, \* operands
    opRes,        \* result
    \* --- the operator regular_path_query (operator/rpq.rs)
    qdfa,         \* graph.query_automata
    pq_replaces,  \* whether PriorityQueue::push swaps the stored item of a present key
    graph,        \* graph.node_index : vertex -> [val: GraphNode, prio]
    tree_queue,   \* delta_tree_queue : root -> [val: SpanningTree, prio]
    node_index,   \* delta_node_index, as the set of <<vertex, state, root>>
    stash,        \* stash entry of the open time: <<source, target, label>> -> interval
    arrived,      \* the tuples received at the open time, in order, where they are logged
    expand_queue, \* the work queue of a tree_expand call in progress: <<node, child, interval>>
    now,          \* the open timely time; every smaller time is closed
    closed,       \* the last step ran the notification of time now - 1
    last_batch,   \* [drained, processed]: tuples it took from the stash, and those
                  \* it put in tuple_to_process
    emitted,      \* results given to the session by the last notification, in order
    everEmitted,  \* <<root, endpoint>> of every result given so far
    fault         \* an unwrap or panic! of the operator was hit

autVars == <<query, stage, nfa, dfa, mdfa>>
opVars  == <<opKind, opLabel, opLhs, opRhs, opRes>>
drvVars == <<qdfa, pq_replaces, graph, tree_queue, node_index, stash, arrived, expand_queue,
             now, closed, last_batch, emitted, everEmitted, fault>>
vars    == <<autVars, opVars, drvVars>>

(***************************************************************************)
(* Bounds                                                                  *)
(***************************************************************************)
MaxSeqLen  == 3      \* longest '/'-sequence of unparenthesised elements
MaxWordLen == 4      \* longest word tried against an automaton

Labels == {"a", "b"}

Words == UNION {[1..n -> Labels] : n \in 0..MaxWordLen}

SeqsOver(S, n) == UNION {[1..k -> S] : k \in 1..n}

RECURSIVE SetToSeq(_)
SetToSeq(S) == IF S = {} THEN <<>>
               ELSE LET x == CHOOSE y \in S : TRUE IN <<x>> \o SetToSeq(S \ {x})

RECURSIVE Perms(_)
Perms(S) == IF S = {} THEN {<<>>}
            ELSE UNION {{<<x>> \o p : p \in Perms(S \ {x})} : x \in S}

Range(f) == {f[i] : i \in DOMAIN f}

Max(x, y) == IF x >= y THEN x ELSE y
Min(x, y) == IF x <= y THEN x ELSE y

\* a map or queue without keys
Empty == [k \in {} |-> k]

\* the operator before regular_path_query is called
DriverIdle ==
    /\ qdfa = [num_states |-> 0, final_states |-> {}, transitions |-> {}, forward |-> {}]
    /\ pq_replaces = FALSE
    /\ graph = Empty
    /\ tree_queue = Empty
    /\ node_index = {}
    /\ stash = Empty
    /\ arrived = <<>>
    /\ expand_queue = <<>>
    /\ now = 0
    /\ closed = FALSE
    /\ last_batch = [drained |-> 0, processed |-> 0]
    /\ emitted = <<>>
    /\ everEmitted = {}
    /\ fault = FALSE

(***************************************************************************)
(* Parse trees.  A Path is a sequence of alternatives, an alternative a    *)
(* sequence of elements, an element a primary with an optional modifier,   *)
(* a primary a predicate (sub = <<>>) or a parenthesised Path.             *)
(***************************************************************************)
Mods == {"", "*", "+"}

Elt(p, s, m) == [pred |-> p, sub |-> s, mod |-> m]

PlainElts == {Elt(l, <<>>, m) : l \in Labels, m \in Mods}
PredElts  == {Elt(l, <<>>, "") : l \in Labels}

NestedPaths ==
    {<<<<x, y>>>> : x \in PredElts, y \in PredElts}
    \cup {<<<<x>>, <<y>>>> : x \in PredElts, y \in PredElts}

NestedElts == {Elt("", p, m) : p \in NestedPaths, m \in Mods}

Queries ==
    {<<s>> : s \in SeqsOver(PlainElts, MaxSeqLen)}
    \cup {<<<<x>>, <<y>>>> : x \in PlainElts, y \in PlainElts}
    \cup {<<s, t>> : s \in SeqsOver(PredElts, 2), t \in SeqsOver(PredElts, 2)}
    \cup {<<<<e>>>> : e \in NestedElts}
    \cup {<<<<e, p>>>> : e \in NestedElts, p \in PredElts}
    \cup {<<<<p, e>>>> : e \in NestedElts, p \in PredElts}

(***************************************************************************)
(* NFA (query/automata/nfa.rs).  States are 0..num_states-1, 0 the start.  *)
(***************************************************************************)
NewNFA(n, finals) ==
    [num_states |-> n, final_states |-> finals, transitions |-> {}, epsilon |-> {}]

NFAAddTransition(A, s, t, l) ==
    [A EXCEPT !.transitions = @ \cup {<<s, l, t>>}]

NFAAddEpsilonTransition(A, s, t) ==
    [A EXCEPT !.epsilon = @ \cup {<<s, t>>}]

NFAAlphabet(A) == {tr[2] : tr \in A.transitions}

\* state_move: the targets of (state, label); {} stands for None
NFAStateMove(A, s, l) == {tr[3] : tr \in {x \in A.transitions : x[1] = s /\ x[2] = l}}

RECURSIVE EpsReach(_, _)
EpsReach(A, S) ==
    LET next == S \cup {e[2] : e \in {x \in A.epsilon : x[1] \in S}}
    IN IF next = S THEN S ELSE EpsReach(A, next)

GetEpsilonClosure(A, s) == EpsReach(A, {s})

RECURSIVE NFARun(_, _, _, _)
NFARun(A, closure, w, i) ==
    IF i > Len(w) THEN closure \cap A.final_states # {}
    ELSE LET next == UNION {NFAStateMove(A, s, w[i]) : s \in closure}
         IN IF next = {} THEN FALSE
            ELSE NFARun(A, UNION {GetEpsilonClosure(A, s) : s \in next}, w, i + 1)

\* accept, for a word over the alphabet (it panics on any other word)
NFAAccept(A, w) == NFARun(A, GetEpsilonClosure(A, 0), w, 1)

NFAContainsLabel(A, l) == l \in NFAAlphabet(A)

\* the run of accept with the indexing of the per-state vectors: "panic" when
\* a state at or above num_states is indexed
RECURSIVE NFAAcceptRun(_, _, _, _)
NFAAcceptRun(A, closure, w, i) ==
    IF \E s \in closure : s >= A.num_states THEN "panic"
    ELSE IF i > Len(w)
    THEN IF closure \cap A.final_states # {} THEN "true" ELSE "false"
    ELSE LET next == UNION {NFAStateMove(A, s, w[i]) : s \in closure}
         IN IF next = {} THEN "false"
            ELSE IF \E s \in next : s >= A.num_states THEN "panic"
            ELSE NFAAcceptRun(A, UNION {GetEpsilonClosure(A, s) : s \in next}, w, i + 1)

\* accept on any word: "panic" | "true" | "false"
NFAAcceptOutcome(A, w) ==
    IF ~(\A i \in 1..Len(w) : NFAContainsLabel(A, w[i])) THEN "panic"
    ELSE IF A.num_states = 0 THEN "panic"
    ELSE NFAAcceptRun(A, GetEpsilonClosure(A, 0), w, 1)

(***************************************************************************)
(* Thompson helpers (query/automata/mod.rs)                                *)
(***************************************************************************)
MoveTransitions(source, target, offset) ==
    [target EXCEPT
        !.transitions = @ \cup {<<tr[1] + offset, tr[2], tr[3] + offset>> : tr \in source.transitions},
        !.epsilon     = @ \cup {<<e[1] + offset, e[2] + offset>> : e \in source.epsilon}]

AddEpsilons(A, pairs) == [A EXCEPT !.epsilon = @ \cup pairs]

Transition(l) == NFAAddTransition(NewNFA(2, {1}), 0, 1, l)

Concatenation(lhs, rhs) ==
    LET offset == lhs.num_states
        r0 == NewNFA(lhs.num_states + rhs.num_states, {f + offset : f \in rhs.final_states})
        r1 == MoveTransitions(lhs, r0, 0)
        r2 == MoveTransitions(rhs, r1, offset)
    IN AddEpsilons(r2, {<<f, lhs.num_states>> : f \in lhs.final_states})

Alternation(lhs, rhs) ==
    LET n == lhs.num_states + rhs.num_states + 2
        final_state == n - 1
        lhs_offset == 1
        rhs_offset == lhs.num_states + 1
        r0 == NewNFA(n, {final_state})
        r1 == MoveTransitions(lhs, r0, lhs_offset)
        r2 == MoveTransitions(rhs, r1, rhs_offset)
    IN AddEpsilons(r2,
           {<<0, lhs_offset>>, <<0, rhs_offset>>}
           \cup {<<f + lhs_offset, final_state>> : f \in lhs.final_states}
           \cup {<<f + rhs_offset, final_state>> : f \in rhs.final_states})

KleenePlusBackEdges(input, final_state) ==
    {<<0, 1>>}
    \cup {<<f + 1, final_state>> : f \in input.final_states}
    \cup {<<f + 1, 1>> : f \in input.final_states}

KleeneStar(input) ==
    LET n == input.num_states + 2
        final_state == n - 1
        r1 == MoveTransitions(input, NewNFA(n, {final_state}), 1)
    IN AddEpsilons(r1, {<<0, final_state>>} \cup KleenePlusBackEdges(input, final_state))

\* mutant: the start -> accept bypass of kleene_star is kept
KleenePlusWithBypass(input) == KleeneStar(input)

KleenePlus(input) ==
    LET n == input.num_states + 2
        final_state == n - 1
        r1 == MoveTransitions(input, NewNFA(n, {final_state}), 1)
    IN AddEpsilons(r1, KleenePlusBackEdges(input, final_state))

(***************************************************************************)
(* RPQParser (query/parser/mod.rs): parse tree -> NFA                      *)
(***************************************************************************)
RECURSIVE ParsePath(_), ParseAlternative(_, _), ParseSequence(_, _), ParseElt(_), ParsePrimary(_)

ParsePrimary(e) == IF e.sub = <<>> THEN Transition(e.pred) ELSE ParsePath(e.sub)

ParseElt(e) ==
    LET primary == ParsePrimary(e)
    IN IF e.mod = "*" THEN KleeneStar(primary)
       ELSE IF e.mod = "+" THEN KleenePlus(primary)
       ELSE primary

\* the first n elements of the sequence, folded with concatenation
ParseSequence(s, n) ==
    IF n = 1 THEN ParseElt(s[1])
    ELSE Concatenation(ParseSequence(s, n - 1), ParseElt(s[n]))

\* the first n alternatives of the path, folded with alternation
ParseAlternative(p, n) ==
    IF n = 1 THEN ParseSequence(p[1], Len(p[1]))
    ELSE Alternation(ParseAlternative(p, n - 1), ParseSequence(p[n], Len(p[n])))

ParsePath(p) == ParseAlternative(p, Len(p))

(***************************************************************************)
(* DFA (query/automata/dfa.rs).  transitions is the label-keyed set of     *)
(* state pairs, forward the per-state list that state_move reads: it keeps *)
(* the first target added for a (state, label).                            *)
(***************************************************************************)
NoState == 0 - 1

NewDFA(n, finals) ==
    [num_states |-> n, final_states |-> finals, transitions |-> {}, forward |-> {}]

DFAAddTransition(D, s, t, l) ==
    [D EXCEPT
        !.transitions = @ \cup {<<s, l, t>>},
        !.forward = IF \E tr \in @ : tr[1] = s /\ tr[2] = l THEN @ ELSE @ \cup {<<s, l, t>>}]

\* add_transition(tr[1], tr[3], tr[2]) for the triples of seq, in order
RECURSIVE DFAAddAll(_, _, _)
DFAAddAll(D, seq, i) ==
    IF i > Len(seq) THEN D
    ELSE DFAAddAll(DFAAddTransition(D, seq[i][1], seq[i][3], seq[i][2]), seq, i + 1)

DFAAlphabet(D) == {tr[2] : tr \in D.transitions}

\* mutant: the transitions of every label
DFAGetTransitionsAnyLabel(D, l) == {<<tr[1], tr[3]>> : tr \in D.transitions}

DFAGetTransitions(D, l) == {<<tr[1], tr[3]>> : tr \in {x \in D.transitions : x[2] = l}}

DFAGetOutgoingTransitions(D, s) == {<<tr[2], tr[3]>> : tr \in {x \in D.forward : x[1] = s}}

DFAStateMove(D, s, l) ==
    IF \E tr \in D.forward : tr[1] = s /\ tr[2] = l
    THEN (CHOOSE tr \in D.forward : tr[1] = s /\ tr[2] = l)[3]
    ELSE NoState

DFAIsFinalState(D, s) == s \in D.final_states

RECURSIVE DFARun(_, _, _, _)
DFARun(D, current, w, i) ==
    IF i > Len(w) THEN DFAIsFinalState(D, current)
    ELSE LET next == DFAStateMove(D, current, w[i])
         IN IF next = NoState THEN FALSE ELSE DFARun(D, next, w, i + 1)

\* accept, for a word over the alphabet (it panics on any other word)
DFAAccept(D, w) == DFARun(D, 0, w, 1)

DFAContainsLabel(D, l) == l \in DFAAlphabet(D)

RECURSIVE DFAAcceptRun(_, _, _, _)
DFAAcceptRun(D, current, w, i) ==
    IF i > Len(w) THEN IF DFAIsFinalState(D, current) THEN "true" ELSE "false"
    ELSE IF current >= D.num_states THEN "panic"
    ELSE LET next == DFAStateMove(D, current, w[i])
         IN IF next = NoState THEN "false" ELSE DFAAcceptRun(D, next, w, i + 1)

\* mutant: accept without the assert on the labels of the word
DFAAcceptUnchecked(D, w) == DFAAcceptRun(D, 0, w, 1)

\* accept on any word: "panic" | "true" | "false"
DFAAcceptOutcome(D, w) ==
    IF ~(\A i \in 1..Len(w) : DFAContainsLabel(D, w[i])) THEN "panic"
    ELSE DFAAcceptRun(D, 0, w, 1)

(***************************************************************************)
(* determinize (query/automata/mod.rs): subset construction                *)
(***************************************************************************)
SubsetLabels(N, S) == {tr[2] : tr \in {x \in N.transitions : x[1] \in S}}

\* mutant: the epsilon closure of the targets is not taken
SubsetMoveNoClosure(N, S, l) == UNION {NFAStateMove(N, s, l) : s \in S}

SubsetMove(N, S, l) ==
    UNION {GetEpsilonClosure(N, t) : t \in UNION {NFAStateMove(N, s, l) : s \in S}}

RECURSIVE DfaStates(_, _, _)
DfaStates(N, seen, queue) ==
    IF queue = {} THEN seen
    ELSE LET new == {SubsetMove(N, S[1], S[2]) :
                        S \in {<<Q, l>> : Q \in queue, l \in Labels} \cap
                              UNION {{<<Q, l>> : l \in SubsetLabels(N, Q)} : Q \in queue}} \ seen
         IN DfaStates(N, seen \cup new, new)

StartSubset(N) == GetEpsilonClosure(N, 0)

AllSubsets(N) == DfaStates(N, {StartSubset(N)}, {StartSubset(N)})

\* the orders in which the hash set of subsets can hand out the subsets
\* that are numbered after the start subset
SubsetOrders(N) == Perms(AllSubsets(N) \ {StartSubset(N)})

Determinize(N, ord) ==
    LET start == StartSubset(N)
        subsets == AllSubsets(N)
        subset_mapping(S) == IF S = start THEN 0 ELSE CHOOSE i \in 1..Len(ord) : ord[i] = S
        dfa_final_states == {subset_mapping(S) : S \in {X \in subsets : X \cap N.final_states # {}}}
        moved == UNION {{<<subset_mapping(S), l, subset_mapping(SubsetMove(N, S, l))>> :
                            l \in SubsetLabels(N, S)} : S \in subsets}
    IN DFAAddAll(NewDFA(Len(ord) + 1, dfa_final_states), SetToSeq(moved), 1)

(***************************************************************************)
(* minimize (query/automata/mod.rs): partition refinement on vectors of    *)
(* ordered sets                                                            *)
(***************************************************************************)
RECURSIVE SortedSeq(_)
SortedSeq(S) ==
    IF S = {} THEN <<>>
    ELSE LET m == CHOOSE x \in S : \A y \in S : x <= y IN <<m>> \o SortedSeq(S \ {m})

SwapRemove(v, i) ==
    IF i = Len(v) THEN SubSeq(v, 1, Len(v) - 1)
    ELSE SubSeq([v EXCEPT ![i] = v[Len(v)]], 1, Len(v) - 1)

Position(v, x) == CHOOSE i \in 1..Len(v) : x \in v[i] /\ \A j \in 1..(i - 1) : x \notin v[j]

\* mutant: the targets are compared as states, not by the block holding them
IsDistinguishableByState(automata, partitions, state_1, state_2) ==
    \E l \in DFAAlphabet(automata) :
        DFAStateMove(automata, state_1, l) # DFAStateMove(automata, state_2, l)

IsDistinguishable(automata, partitions, state_1, state_2) ==
    \E l \in DFAAlphabet(automata) :
        LET target_1 == DFAStateMove(automata, state_1, l)
            target_2 == DFAStateMove(automata, state_2, l)
        IN IF target_1 = NoState /\ target_2 = NoState THEN FALSE
           ELSE IF target_1 # NoState /\ target_2 # NoState
                THEN \E k \in 1..Len(partitions) :
                        (target_1 \in partitions[k]) # (target_2 \in partitions[k])
                ELSE TRUE

\* combine the blocks of two indistinguishable states
MergePair(D, partitions, next, first, second) ==
    IF IsDistinguishable(D, partitions, first, second) THEN next
    ELSE LET pos1 == Position(next, first)
             pos2 == Position(next, second)
             lo == IF pos1 < pos2 THEN pos1 ELSE pos2
             hi == IF pos1 < pos2 THEN pos2 ELSE pos1
         IN IF pos1 = pos2 THEN next
            ELSE [SwapRemove(next, hi) EXCEPT ![lo] = @ \cup next[hi]]

\* the pairs (s[i], s[j]) with s[i] > s[j], in cartesian-product order
RECURSIVE MergePairs(_, _, _, _, _, _)
MergePairs(D, partitions, next, s, i, j) ==
    IF i > Len(s) THEN next
    ELSE IF j >= i THEN MergePairs(D, partitions, next, s, i + 1, 1)
    ELSE MergePairs(D, partitions, MergePair(D, partitions, next, s[i], s[j]), s, i, j + 1)

\* one pass of the while loop over the blocks k.. of partitions
RECURSIVE RefineFrom(_, _, _, _)
RefineFrom(D, partitions, next, k) ==
    IF k > Len(partitions) THEN next
    ELSE LET s == SortedSeq(partitions[k])
             singles == next \o [i \in 1..Len(s) |-> {s[i]}]
             merged == IF Len(s) # 1 THEN MergePairs(D, partitions, singles, s, 1, 1)
                       ELSE singles
         IN RefineFrom(D, partitions, merged, k + 1)

RECURSIVE RefineLoop(_, _, _)
RefineLoop(D, partitions, next_partitions) ==
    IF Len(partitions) = Len(next_partitions) THEN next_partitions
    ELSE RefineLoop(D, next_partitions, RefineFrom(D, next_partitions, <<>>, 1))

FinalPartitions(D) ==
    LET final_states == D.final_states
        non_final_states == (0..(D.num_states - 1)) \ final_states
    IN RefineLoop(D, <<>>, <<non_final_states, final_states>>)

\* state_mapping: the block holding state 0 becomes 0, the other blocks
\* are numbered in vector order after the swap_remove of that block
StateMapping(D) ==
    LET np == FinalPartitions(D)
        pos0 == Position(np, 0)
        rest == SwapRemove(np, pos0)
    IN [s \in 0..(D.num_states - 1) |-> IF s \in np[pos0] THEN 0 ELSE Position(rest, s)]

\* the orders of add_transition calls that can differ in their outcome: for
\* every (mapped source, label) any of its transitions can come first
RECURSIVE FirstChoices(_, _, _)
FirstChoices(D, map, keys) ==
    IF keys = {} THEN {<<>>}
    ELSE LET k == CHOOSE x \in keys : TRUE
             group == {tr \in D.transitions : map[tr[1]] = k[1] /\ tr[2] = k[2]}
             targets == {map[tr[3]] : tr \in group}
             reps == {CHOOSE tr \in group : map[tr[3]] = t : t \in targets}
         IN {<<tr>> \o rest : tr \in reps, rest \in FirstChoices(D, map, keys \ {k})}

MinimizeOrders(D) ==
    LET map == StateMapping(D)
        keys == {<<map[tr[1]], tr[2]>> : tr \in D.transitions}
    IN {f \o SetToSeq(D.transitions \ Range(f)) : f \in FirstChoices(D, map, keys)}

Minimize(D, order) ==
    LET np == FinalPartitions(D)
        pos0 == Position(np, 0)
        start_partition == np[pos0]
        rest == SwapRemove(np, pos0)
        map == StateMapping(D)
        finals == (IF start_partition \cap D.final_states # {} THEN {0} ELSE {})
                  \cup {i \in 1..Len(rest) : rest[i] \cap D.final_states # {}}
        mapped == [i \in 1..Len(order) |-> <<map[order[i][1]], order[i][2], map[order[i][3]]>>]
    IN DFAAddAll(NewDFA(Len(rest) + 1, finals), mapped, 1)

(***************************************************************************)
(* The compiler as a state machine: parse_rpq                              *)
(***************************************************************************)
NoNFA == NewNFA(0, {})
NoDFA == NewDFA(0, {})

OpIdle == opKind = "none" /\ opLabel = "" /\ opLhs = NoNFA /\ opRhs = NoNFA /\ opRes = NoNFA

InitCompile ==
    /\ query \in Queries
    /\ stage = "query"
    /\ nfa = NoNFA
    /\ dfa = NoDFA
    /\ mdfa = NoDFA
    /\ OpIdle
    /\ DriverIdle

DoParsePath ==
    /\ stage = "query"
    /\ nfa' = ParsePath(query)
    /\ stage' = "nfa"
    /\ UNCHANGED <<query, dfa, mdfa, opVars, drvVars>>

DoDeterminize ==
    /\ stage = "nfa"
    /\ \E ord \in SubsetOrders(nfa) : dfa' = Determinize(nfa, ord)
    /\ stage' = "dfa"
    /\ UNCHANGED <<query, nfa, mdfa, opVars, drvVars>>

DoMinimize ==
    /\ stage = "dfa"
    /\ \E order \in MinimizeOrders(dfa) : mdfa' = Minimize(dfa, order)
    /\ stage' = "min"
    /\ UNCHANGED <<query, nfa, dfa, opVars, drvVars>>

NextCompile == DoParsePath \/ DoDeterminize \/ DoMinimize

SpecCompile == InitCompile /\ [][NextCompile]_vars

(***************************************************************************)
(* One application of a Thompson helper to NFAs built by the parser        *)
(***************************************************************************)
OperandQueries ==
    {<<<<x>>>> : x \in PlainElts}
    \cup {<<<<x, y>>>> : x \in PredElts, y \in PredElts}
    \cup {<<<<x>>, <<y>>>> : x \in PredElts, y \in PredElts}
    \cup {<<<<e>>>> : e \in NestedElts}

CompileIdle == query = <<>> /\ stage = "idle" /\ nfa = NoNFA /\ dfa = NoDFA /\ mdfa = NoDFA

InitThompson ==
    /\ opKind = "none"
    /\ opLabel = ""
    /\ \E q \in OperandQueries : opLhs = ParsePath(q)
    /\ \E q \in OperandQueries : opRhs = ParsePath(q)
    /\ opRes = NoNFA
    /\ CompileIdle
    /\ DriverIdle

ApplyTransition ==
    /\ opKind = "none"
    /\ \E l \in Labels : opLabel' = l /\ opRes' = Transition(l)
    /\ opKind' = "transition"
    /\ UNCHANGED <<opLhs, opRhs, autVars, drvVars>>

ApplyConcatenation ==
    /\ opKind = "none"
    /\ opRes' = Concatenation(opLhs, opRhs)
    /\ opKind' = "concatenation"
    /\ UNCHANGED <<opLabel, opLhs, opRhs, autVars, drvVars>>

ApplyAlternation ==
    /\ opKind = "none"
    /\ opRes' = Alternation(opLhs, opRhs)
    /\ opKind' = "alternation"
    /\ UNCHANGED <<opLabel, opLhs, opRhs, autVars, drvVars>>

ApplyKleeneStar ==
    /\ opKind = "none"
    /\ opRes' = KleeneStar(opLhs)
    /\ opKind' = "kleene_star"
    /\ UNCHANGED <<opLabel, opLhs, opRhs, autVars, drvVars>>

ApplyKleenePlus ==
    /\ opKind = "none"
    /\ opRes' = KleenePlus(opLhs)
    /\ opKind' = "kleene_plus"
    /\ UNCHANGED <<opLabel, opLhs, opRhs, autVars, drvVars>>

NextThompson ==
    \/ ApplyTransition
    \/ ApplyConcatenation
    \/ ApplyAlternation
    \/ ApplyKleeneStar
    \/ ApplyKleenePlus

SpecThompson == InitThompson /\ [][NextThompson]_vars

(***************************************************************************)
(* HalfOpenTimeInterval (util/types.rs): <<start, end>>                    *)
(***************************************************************************)
U64_MAX == 1000000     \* u64::MAX, above every timestamp of the bound

ZERO == <<0, 0>>

Overlaps(self, other) ==
    IF self[1] > other[1] THEN self[1] < other[2]
    ELSE IF self[1] < other[1] THEN self[2] > other[1]
    ELSE TRUE

Intersect(first, second) == <<Max(first[1], second[1]), Min(first[2], second[2])>>

(***************************************************************************)
(* MinPQIndex (operator/mod.rs): key -> [val, prio].  peek and pop yield a *)
(* key of least priority.                                                  *)
(***************************************************************************)
\* push: the priority of a present key is replaced; whether the value is
\* replaced as well is decided by the priority_queue crate
PQPush(q, key, value, priority) ==
    IF key \in DOMAIN q
    THEN [q EXCEPT ![key] = [val |-> IF pq_replaces THEN value ELSE @.val,
                             prio |-> priority]]
    ELSE (key :> [val |-> value, prio |-> priority]) @@ q

PQChangePriority(q, key, new_priority) ==
    IF key \in DOMAIN q THEN [q EXCEPT ![key].prio = new_priority] ELSE q

PQTryDecreasePriority(q, key, priority) ==
    IF key \in DOMAIN q /\ q[key].prio > priority
    THEN [q EXCEPT ![key].prio = priority]
    ELSE q

PQRemove(q, key) == [k \in DOMAIN q \ {key} |-> q[k]]

PQIsEmpty(q) == DOMAIN q = {}

\* priority returned by peek, u64::MAX where the callers map None to it
PQMinPriority(q) ==
    IF DOMAIN q = {} THEN U64_MAX
    ELSE CHOOSE p \in {q[k].prio : k \in DOMAIN q} : \A k \in DOMAIN q : p <= q[k].prio

\* mutant: a priority equal to the watermark is not popped
PQExpiredBelow(q, low_watermark) == {k \in DOMAIN q : q[k].prio < low_watermark}

\* the keys popped by a loop "while peek has priority <= low_watermark: pop"
PQExpired(q, low_watermark) == {k \in DOMAIN q : q[k].prio <= low_watermark}

PQRetainAbove(q, low_watermark) ==
    [k \in DOMAIN q \ PQExpired(q, low_watermark) |-> q[k]]

(***************************************************************************)
(* Graph (graph/mod.rs).  A GraphNode is [outgoing_edges, incoming_edges], *)
(* each a map label -> MinPQIndex keyed by the neighbour, with the edge's  *)
(* start as value and its end as priority.                                 *)
(***************************************************************************)
NewGraphNode == [outgoing_edges |-> Empty, incoming_edges |-> Empty]

\* mutant: an end equal to the stored one counts as larger
AddNeighbourNotSmaller(edges_of, label, neighbour, interval) ==
    LET edges == IF label \in DOMAIN edges_of THEN edges_of[label] ELSE Empty
        has_larger_expiry ==
            IF neighbour \in DOMAIN edges THEN ~(edges[neighbour].prio > interval[2]) ELSE TRUE
        pushed == IF has_larger_expiry
                  THEN PQPush(edges, neighbour, interval[1], interval[2])
                  ELSE edges
    IN [table |-> (label :> pushed) @@ edges_of, has_larger_expiry |-> has_larger_expiry]

\* mutant: the edge is pushed whatever end is stored
AddNeighbourAlways(edges_of, label, neighbour, interval) ==
    LET edges == IF label \in DOMAIN edges_of THEN edges_of[label] ELSE Empty
    IN [table |-> (label :> PQPush(edges, neighbour, interval[1], interval[2])) @@ edges_of,
        has_larger_expiry |-> TRUE]

\* add_outgoing_neighbour / add_incoming_neighbour on one of the two tables
AddNeighbour(edges_of, label, neighbour, interval) ==
    LET edges == IF label \in DOMAIN edges_of THEN edges_of[label] ELSE Empty
        has_larger_expiry ==
            IF neighbour \in DOMAIN edges THEN ~(edges[neighbour].prio >= interval[2]) ELSE TRUE
        pushed == IF has_larger_expiry
                  THEN PQPush(edges, neighbour, interval[1], interval[2])
                  ELSE edges
    IN [table |-> (label :> pushed) @@ edges_of, has_larger_expiry |-> has_larger_expiry]

AddOutgoingNeighbour(node, label, neighbour, interval) ==
    LET r == AddNeighbour(node.outgoing_edges, label, neighbour, interval)
    IN [node |-> [node EXCEPT !.outgoing_edges = r.table],
        has_larger_expiry |-> r.has_larger_expiry]

\* mutant: the backward table takes every interval
AddIncomingNeighbourAlways(node, label, neighbour, interval) ==
    LET r == AddNeighbourAlways(node.incoming_edges, label, neighbour, interval)
    IN [node |-> [node EXCEPT !.incoming_edges = r.table],
        has_larger_expiry |-> r.has_larger_expiry]

AddIncomingNeighbour(node, label, neighbour, interval) ==
    LET r == AddNeighbour(node.incoming_edges, label, neighbour, interval)
    IN [node |-> [node EXCEPT !.incoming_edges = r.table],
        has_larger_expiry |-> r.has_larger_expiry]

\* insert_edge: [graph, has_larger_expiry]
InsertEdge(g, source, label, target, interval) ==
    LET new_expiry_ts == interval[2]
        has_source == source \in DOMAIN g
        out == AddOutgoingNeighbour(IF has_source THEN g[source].val ELSE NewGraphNode,
                                    label, target, interval)
        g1 == IF has_source THEN [g EXCEPT ![source].val = out.node]
              ELSE PQPush(g, source, out.node, interval[2])
        g2 == PQTryDecreasePriority(g1, source, new_expiry_ts)
        has_target == target \in DOMAIN g2
        inc == AddIncomingNeighbour(IF has_target THEN g2[target].val ELSE NewGraphNode,
                                    label, source, interval)
        g3 == IF has_target THEN [g2 EXCEPT ![target].val = inc.node]
              ELSE PQPush(g2, target, inc.node, interval[2])
        g4 == PQTryDecreasePriority(g3, target, new_expiry_ts)
    IN [graph |-> g4,
        has_larger_expiry |-> IF has_source THEN out.has_larger_expiry ELSE TRUE]

\* mutant: the tables keep the edges that end at the watermark
RemoveExpiredBefore(edges_of, low_watermark) ==
    LET kept == [l \in DOMAIN edges_of |-> PQRetainAbove(edges_of[l], low_watermark - 1)]
    IN [l \in {x \in DOMAIN kept : ~PQIsEmpty(kept[x])} |-> kept[l]]

\* remove_expired_inedges / remove_expired_outedges: the retained table
RemoveExpired(edges_of, low_watermark) ==
    LET kept == [l \in DOMAIN edges_of |-> PQRetainAbove(edges_of[l], low_watermark)]
    IN [l \in {x \in DOMAIN kept : ~PQIsEmpty(kept[x])} |-> kept[l]]

\* ... and the min timestamp they return
MinTimestamp(edges_of) ==
    IF DOMAIN edges_of = {} THEN U64_MAX
    ELSE LET ts == {PQMinPriority(edges_of[l]) : l \in DOMAIN edges_of}
         IN CHOOSE p \in ts : \A x \in ts : p <= x

IsIsolated(node) == DOMAIN node.incoming_edges = {} /\ DOMAIN node.outgoing_edges = {}

RemoveEdges(g, low_watermark) ==
    LET expiry_candidates == PQExpired(g, low_watermark)
        Pruned(key) ==
            [incoming_edges |-> RemoveExpired(g[key].val.incoming_edges, low_watermark),
             outgoing_edges |-> RemoveExpired(g[key].val.outgoing_edges, low_watermark)]
        kept == {key \in expiry_candidates : ~IsIsolated(Pruned(key))}
    IN [key \in (DOMAIN g \ expiry_candidates) \cup kept |->
            IF key \in kept
            THEN [val |-> Pruned(key),
                  prio |-> Min(MinTimestamp(Pruned(key).outgoing_edges),
                               MinTimestamp(Pruned(key).incoming_edges))]
            ELSE g[key]]

\* GraphNode::get_outgoing_edges: <<target, start, end>> of the label
NodeOutgoingEdges(node, label) ==
    IF label \in DOMAIN node.outgoing_edges
    THEN {<<v, node.outgoing_edges[label][v].val, node.outgoing_edges[label][v].prio>> :
            v \in DOMAIN node.outgoing_edges[label]}
    ELSE {}

NodeIncomingEdges(node, label) ==
    IF label \in DOMAIN node.incoming_edges
    THEN {<<v, node.incoming_edges[label][v].val, node.incoming_edges[label][v].prio>> :
            v \in DOMAIN node.incoming_edges[label]}
    ELSE {}

\* Graph::get_outgoing_edges: <<<<vertex, state>>, interval, label>>, in one
\* group per outgoing transition of the state; the iterator yields group
\* after group
GetOutgoingEdges(g, D, vertex, state) ==
    {{<<<<e[1], tr[2]>>, <<e[2], e[3]>>, tr[1]>> :
            e \in NodeOutgoingEdges(g[vertex].val, tr[1])} :
        tr \in IF vertex \in DOMAIN g THEN DFAGetOutgoingTransitions(D, state) ELSE {}}

\* mutant: the edges that end one past the watermark are left out as well
GetOutgoingEdgesMuchLarger(g, D, vertex, state, low_watermark) ==
    {{x \in grp : x[2][2] > low_watermark + 1} : grp \in GetOutgoingEdges(g, D, vertex, state)}

GetOutgoingEdgesLargerThan(g, D, vertex, state, low_watermark) ==
    {{x \in grp : x[2][2] > low_watermark} : grp \in GetOutgoingEdges(g, D, vertex, state)}

(***************************************************************************)
(* TreeNode and SpanningTree (operator/tree_node.rs, spanning_tree.rs)     *)
(***************************************************************************)
NoNode == <<>>      \* parent of the root node: None

NewTreeNode(timestamp, incoming_edge_ts, parent) ==
    [timestamp |-> timestamp, incoming_edge_ts |-> incoming_edge_ts,
     parent |-> parent, children |-> {}]

NewSpanningTree(root) ==
    [root_vertex |-> <<root, 0>>,
     root_node |-> NewTreeNode(ZERO, ZERO, NoNode),
     node_queue |-> Empty]

TreeContains(tree, node) == node \in DOMAIN tree.node_queue

TreeIsEmpty(tree) == PQIsEmpty(tree.node_queue)

GetMinTimestamp(tree) == PQMinPriority(tree.node_queue)

GetInterval(tree, node) == tree.node_queue[node].val.timestamp

AddChildren(tree, parent, child) ==
    IF parent = tree.root_vertex
    THEN [tree EXCEPT !.root_node.children = @ \cup {child}]
    ELSE [tree EXCEPT !.node_queue[parent].val.children = @ \cup {child}]

RemoveChild(tree, parent, child) ==
    IF parent = tree.root_vertex
    THEN [tree EXCEPT !.root_node.children = @ \ {child}]
    ELSE [tree EXCEPT !.node_queue[parent].val.children = @ \ {child}]

\* mutant: the new node takes the interval of its edge under any parent
AddVertexEdgeInterval(tree, node, timestamp, parent) ==
    LET new_vertex == NewTreeNode(timestamp, timestamp, parent)
        pushed == [tree EXCEPT
                     !.node_queue = PQPush(@, node, new_vertex, timestamp[2])]
    IN AddChildren(pushed, parent, node)

\* add_vertex; the parent is the root or a node of the tree
AddVertex(tree, node, timestamp, parent) ==
    LET node_timestamp ==
            IF tree.root_vertex = parent THEN timestamp
            ELSE Intersect(timestamp, GetInterval(tree, parent))
        new_vertex == NewTreeNode(node_timestamp, timestamp, parent)
        pushed == [tree EXCEPT
                     !.node_queue = PQPush(@, node, new_vertex, node_timestamp[2])]
    IN AddChildren(pushed, parent, node)

\* update_parent panics when the old parent is neither the root nor a node
UpdateParentPanics(tree, node) ==
    LET old_parent_node == tree.node_queue[node].val.parent
    IN old_parent_node # tree.root_vertex /\ ~TreeContains(tree, old_parent_node)

\* mutant: the node stays in the children of its old parent
UpdateParentAttachOnly(tree, node, new_parent, edge_ts) ==
    LET attached == AddChildren(tree, new_parent, node)
    IN [attached EXCEPT !.node_queue[node].val.parent = new_parent,
                        !.node_queue[node].val.incoming_edge_ts = edge_ts]

UpdateParent(tree, node, new_parent, edge_ts) ==
    LET old_parent_node == tree.node_queue[node].val.parent
        detached == RemoveChild(tree, old_parent_node, node)
        attached == AddChildren(detached, new_parent, node)
    IN [attached EXCEPT !.node_queue[node].val.parent = new_parent,
                        !.node_queue[node].val.incoming_edge_ts = edge_ts]

SetInterval(tree, node, new_timestamp) ==
    [tree EXCEPT !.node_queue[node].val.timestamp = new_timestamp]

UpdateNodeExpiry(tree, node, new_timestamp) ==
    [tree EXCEPT !.node_queue = PQChangePriority(@, node, new_timestamp)]

\* expiry: the nodes popped, and the unwrap that fails when the parent of a
\* popped node is neither the root, nor popped before it, nor in the queue
ExpiredNodes(tree, low_watermark) == PQExpired(tree.node_queue, low_watermark)

ExpiryPanics(tree, low_watermark) ==
    \E n \in ExpiredNodes(tree, low_watermark) :
        LET p == tree.node_queue[n].val.parent
        IN p # tree.root_vertex /\ ~TreeContains(tree, p)

\* mutant: the popped nodes stay in the children of their parents
ExpiryKeepChildren(tree, low_watermark) ==
    [tree EXCEPT !.node_queue = PQRetainAbove(tree.node_queue, low_watermark)]

Expiry(tree, low_watermark) ==
    LET removed == ExpiredNodes(tree, low_watermark)
        Orphaned(p) == {n \in removed : tree.node_queue[n].val.parent = p}
        kept == PQRetainAbove(tree.node_queue, low_watermark)
    IN [tree EXCEPT
          !.root_node.children = @ \ Orphaned(tree.root_vertex),
          !.node_queue = [n \in DOMAIN kept |->
                            [kept[n] EXCEPT !.val.children = @ \ Orphaned(n)]]]

(***************************************************************************)
(* Delta (operator/delta.rs)                                               *)
(***************************************************************************)
DeltaContains(tq, vertex) == vertex \in DOMAIN tq

InsertIntoNodeIndex(ni, vertex, state, tree_root) == ni \cup {<<vertex, state, tree_root>>}

RemoveFromNodeIndex(ni, vertex, state, tree_root) == ni \ {<<vertex, state, tree_root>>}

\* add_spanning_tree: [tq, ni]
AddSpanningTree(ni, tq, vertex) ==
    [tq |-> PQPush(tq, vertex, NewSpanningTree(vertex), U64_MAX),
     ni |-> InsertIntoNodeIndex(ni, vertex, 0, vertex)]

GetUpdatableTrees(ni, source_vertex, source_state) ==
    {x[3] : x \in {y \in ni : y[1] = source_vertex /\ y[2] = source_state}}

GetExpiredTrees(tq, low_watermark) == PQExpired(tq, low_watermark)

\* mutant: the priority of a tree is lowered and never raised
UpdateTreeExpiryDecreasing(tq, vertex, min_timestamp) ==
    PQTryDecreasePriority(tq, vertex, min_timestamp)

UpdateTreeExpiry(tq, vertex, min_timestamp) == PQChangePriority(tq, vertex, min_timestamp)

\* mutant: node_index keeps the entries of the removed nodes and trees
ExpireTreesKeepIndex(tq, ni, low_watermark) ==
    LET expired_trees == GetExpiredTrees(tq, low_watermark)
        After(r) == Expiry(tq[r].val, low_watermark)
        emptied == {r \in expired_trees : TreeIsEmpty(After(r))}
    IN [tq |-> [r \in DOMAIN tq \ emptied |->
                  IF r \in expired_trees
                  THEN [val |-> After(r), prio |-> GetMinTimestamp(After(r))]
                  ELSE tq[r]],
        ni |-> ni,
        panics |-> \E r \in expired_trees : ExpiryPanics(tq[r].val, low_watermark)]

\* the window maintenance of the notification (rpq.rs 92-128): [tq, ni, panics]
ExpireTrees(tq, ni, low_watermark) ==
    LET expired_trees == GetExpiredTrees(tq, low_watermark)
        After(r) == Expiry(tq[r].val, low_watermark)
        removed_nodes == {<<n[1], n[2], r>> : <<n, r>> \in
                            UNION {ExpiredNodes(tq[r].val, low_watermark) \X {r} :
                                     r \in expired_trees}}
        emptied == {r \in expired_trees : TreeIsEmpty(After(r))}
    IN [tq |-> [r \in DOMAIN tq \ emptied |->
                  IF r \in expired_trees
                  THEN [val |-> After(r), prio |-> GetMinTimestamp(After(r))]
                  ELSE tq[r]],
        ni |-> (ni \ removed_nodes) \ {<<r, 0, r>> : r \in emptied},
        panics |-> \E r \in expired_trees : ExpiryPanics(tq[r].val, low_watermark)]

(***************************************************************************)
(* tree_expand (operator/rpq.rs).  The iterators over hash tables yield in *)
(* an order the code does not fix, so the expansion is the set of the      *)
(* outcomes [tree, results, panics] over these orders.                     *)
(***************************************************************************)
\* the sequences an iterator over groups can yield: group after group
RECURSIVE GroupOrders(_)
GroupOrders(groups) ==
    IF groups = {} THEN {<<>>}
    ELSE UNION {{p \o rest : p \in Perms(grp), rest \in GroupOrders(groups \ {grp})} :
                  grp \in groups}

\* queue.push_back((child, (v, s), interval)) for each neighbour of the order
Enqueue(queue, child, neighbours) ==
    queue \o [i \in 1..Len(neighbours) |-> <<child, neighbours[i][1], neighbours[i][2]>>]

\* mutant: a candidate whose end equals the node's end becomes the parent
RECURSIVE ExpandLoopOnTies(_, _, _, _)
ExpandLoopOnTies(tree, g, queue, reachability_results) ==
    IF queue = <<>>
    THEN {[tree |-> tree, results |-> reachability_results, panics |-> FALSE]}
    ELSE
      LET node == queue[1][1]
          child == queue[1][2]
          child_ts == queue[1][3]
          rest == Tail(queue)
          is_root == tree.root_vertex = node
      IN
      IF ~(is_root \/ (TreeContains(tree, node)
                        /\ Overlaps(GetInterval(tree, node), child_ts)))
      THEN ExpandLoopOnTies(tree, g, rest, reachability_results)
      ELSE IF ~TreeContains(tree, child)
      THEN
        LET added == AddVertex(tree, child, child_ts, node)
            child_interval == GetInterval(added, child)
            neighbours == {{x \in grp : Overlaps(child_interval, x[2])} :
                             grp \in GetOutgoingEdges(g, qdfa, child[1], child[2])}
        IN UNION {ExpandLoopOnTies(added, g, Enqueue(rest, child, ord),
                             Append(reachability_results, <<child, child_interval>>)) :
                    ord \in GroupOrders(neighbours)}
      ELSE
        LET new_interval == IF is_root THEN child_ts
                            ELSE Intersect(child_ts, GetInterval(tree, node))
            old_expiry_timestamp == GetInterval(tree, child)[2]
        IN
        IF old_expiry_timestamp < new_interval[2]
        THEN
          IF UpdateParentPanics(tree, child)
          THEN {[tree |-> tree, results |-> reachability_results, panics |-> TRUE]}
          ELSE
            LET moved == UpdateNodeExpiry(
                            SetInterval(UpdateParent(tree, child, node, child_ts),
                                        child, new_interval),
                            child, new_interval[2])
                neighbours == GetOutgoingEdgesLargerThan(g, qdfa, child[1], child[2],
                                                         old_expiry_timestamp)
            IN UNION {ExpandLoopOnTies(moved, g, Enqueue(rest, child, ord),
                                 Append(reachability_results, <<child, new_interval>>)) :
                        ord \in GroupOrders(neighbours)}
        ELSE IF old_expiry_timestamp = new_interval[2] /\ ~UpdateParentPanics(tree, child)
        THEN ExpandLoopOnTies(UpdateParent(tree, child, node, child_ts), g, rest,
                              reachability_results)
        ELSE ExpandLoopOnTies(tree, g, rest, reachability_results)

\* mutant: a node keeps the interval it was added with
RECURSIVE ExpandLoopFirstInterval(_, _, _, _)
ExpandLoopFirstInterval(tree, g, queue, reachability_results) ==
    IF queue = <<>>
    THEN {[tree |-> tree, results |-> reachability_results, panics |-> FALSE]}
    ELSE
      LET node == queue[1][1]
          child == queue[1][2]
          child_ts == queue[1][3]
          rest == Tail(queue)
          is_root == tree.root_vertex = node
      IN
      IF ~(is_root \/ (TreeContains(tree, node)
                        /\ Overlaps(GetInterval(tree, node), child_ts)))
      THEN ExpandLoopFirstInterval(tree, g, rest, reachability_results)
      ELSE IF ~TreeContains(tree, child)
      THEN
        LET added == AddVertex(tree, child, child_ts, node)
            child_interval == GetInterval(added, child)
            neighbours == {{x \in grp : Overlaps(child_interval, x[2])} :
                             grp \in GetOutgoingEdges(g, qdfa, child[1], child[2])}
        IN UNION {ExpandLoopFirstInterval(added, g, Enqueue(rest, child, ord),
                             Append(reachability_results, <<child, child_interval>>)) :
                    ord \in GroupOrders(neighbours)}
      ELSE ExpandLoopFirstInterval(tree, g, rest, reachability_results)

RECURSIVE ExpandLoop(_, _, _, _)
ExpandLoop(tree, g, queue, reachability_results) ==
    IF queue = <<>>
    THEN {[tree |-> tree, results |-> reachability_results, panics |-> FALSE]}
    ELSE
      LET node == queue[1][1]
          child == queue[1][2]
          child_ts == queue[1][3]
          rest == Tail(queue)
          is_root == tree.root_vertex = node
      IN
      IF ~(is_root \/ (TreeContains(tree, node)
                        /\ Overlaps(GetInterval(tree, node), child_ts)))
      THEN ExpandLoop(tree, g, rest, reachability_results)
      ELSE IF ~TreeContains(tree, child)
      THEN
        LET added == AddVertex(tree, child, child_ts, node)
            child_interval == GetInterval(added, child)
            neighbours == {{x \in grp : Overlaps(child_interval, x[2])} :
                             grp \in GetOutgoingEdges(g, qdfa, child[1], child[2])}
        IN UNION {ExpandLoop(added, g, Enqueue(rest, child, ord),
                             Append(reachability_results, <<child, child_interval>>)) :
                    ord \in GroupOrders(neighbours)}
      ELSE
        LET new_interval == IF is_root THEN child_ts
                            ELSE Intersect(child_ts, GetInterval(tree, node))
            old_expiry_timestamp == GetInterval(tree, child)[2]
        IN
        IF old_expiry_timestamp < new_interval[2]
        THEN
          IF UpdateParentPanics(tree, child)
          THEN {[tree |-> tree, results |-> reachability_results, panics |-> TRUE]}
          ELSE
            LET moved == UpdateNodeExpiry(
                            SetInterval(UpdateParent(tree, child, node, child_ts),
                                        child, new_interval),
                            child, new_interval[2])
                neighbours == GetOutgoingEdgesLargerThan(g, qdfa, child[1], child[2],
                                                         old_expiry_timestamp)
            IN UNION {ExpandLoop(moved, g, Enqueue(rest, child, ord),
                                 Append(reachability_results, <<child, new_interval>>)) :
                        ord \in GroupOrders(neighbours)}
        ELSE ExpandLoop(tree, g, rest, reachability_results)

TreeExpand(tree, g, source_vertex, source_state, target_vertex, target_state, edge_ts) ==
    ExpandLoop(tree, g,
               <<<<<<source_vertex, source_state>>, <<target_vertex, target_state>>, edge_ts>>>>,
               <<>>)

(***************************************************************************)
(* The notification of a completed time (operator/rpq.rs 82-183).  The     *)
(* delta state threaded through it is [tq, ni, emitted, panics].           *)
(***************************************************************************)
\* mutant: the results of the states that are not final are given as well
IsAnyResult(x) == x[1][2] >= 0

IsFinalResult(x) == DFAIsFinalState(qdfa, x[1][2])

\* rpq.rs 164-179: one updatable tree
ExpandTree(st, g, tree_root, step) ==
    IF st.panics THEN {st}
    ELSE IF ~DeltaContains(st.tq, tree_root) THEN {[st EXCEPT !.panics = TRUE]}
    ELSE
      {LET finals == SelectSeq(o.results, IsFinalResult)
       IN [tq |-> UpdateTreeExpiry([st.tq EXCEPT ![tree_root].val = o.tree],
                                   tree_root, GetMinTimestamp(o.tree)),
           ni |-> st.ni \cup {<<x[1][1], x[1][2], tree_root>> : x \in Range(o.results)},
           emitted |-> st.emitted \o
                       [i \in 1..Len(finals) |->
                           [root |-> tree_root, vertex |-> finals[i][1][1],
                            state |-> finals[i][1][2], interval |-> finals[i][2]]],
           panics |-> o.panics] :
         o \in TreeExpand(st.tq[tree_root].val, g, step.source, step.source_state,
                          step.target, step.target_state, step.interval)}

RECURSIVE ExpandTrees(_, _, _, _)
ExpandTrees(st, g, roots, step) ==
    IF roots = <<>> THEN {st}
    ELSE UNION {ExpandTrees(s2, g, Tail(roots), step) : s2 \in ExpandTree(st, g, roots[1], step)}

\* mutant: a tree is added for a transition from any state
ProcessTransitionAnyState(st, g, step) ==
    LET created == IF ~DeltaContains(st.tq, step.source)
                   THEN AddSpanningTree(st.ni, st.tq, step.source)
                   ELSE [tq |-> st.tq, ni |-> st.ni]
        st1 == [st EXCEPT !.tq = created.tq, !.ni = created.ni]
        updateable_trees == GetUpdatableTrees(st1.ni, step.source, step.source_state)
    IN UNION {ExpandTrees(st1, g, ord, step) : ord \in Perms(updateable_trees)}

\* rpq.rs 149-181: one transition of the label of one tuple
ProcessTransition(st, g, step) ==
    LET created == IF step.source_state = 0 /\ ~DeltaContains(st.tq, step.source)
                   THEN AddSpanningTree(st.ni, st.tq, step.source)
                   ELSE [tq |-> st.tq, ni |-> st.ni]
        st1 == [st EXCEPT !.tq = created.tq, !.ni = created.ni]
        updateable_trees == GetUpdatableTrees(st1.ni, step.source, step.source_state)
    IN UNION {ExpandTrees(st1, g, ord, step) : ord \in Perms(updateable_trees)}

RECURSIVE ProcessTransitions(_, _, _)
ProcessTransitions(st, g, steps) ==
    IF steps = <<>> THEN {st}
    ELSE UNION {ProcessTransitions(s2, g, Tail(steps)) :
                  s2 \in ProcessTransition(st, g, steps[1])}

\* rpq.rs 133-142: the stash entry goes into the graph; [graph, grown]
RECURSIVE InsertTuples(_, _, _, _)
InsertTuples(g, time_index, keys, grown) ==
    IF keys = <<>> THEN [graph |-> g, grown |-> grown]
    ELSE LET key == keys[1]
             r == InsertEdge(g, key[1], key[3], key[2], time_index[key])
         IN InsertTuples(r.graph, time_index, Tail(keys),
                         IF r.has_larger_expiry THEN grown \cup {key} ELSE grown)

\* the transitions to process for the tuples that grew, tuple after tuple
Steps(time_index, grown) ==
    GroupOrders({{[source |-> key[1], target |-> key[2], label |-> key[3],
                   interval |-> time_index[key],
                   source_state |-> tr[1], target_state |-> tr[2]] :
                     tr \in DFAGetTransitions(qdfa, key[3])} : key \in grown})

\* mutant: the batch is inserted before the graph is evicted
NotificationInsertFirst(g, tq, ni, time_index, low_watermark) ==
    LET filled == InsertTuples(g, time_index, SetToSeq(DOMAIN time_index), {})
        pruned == RemoveEdges(filled.graph, low_watermark)
        expired == ExpireTrees(tq, ni, low_watermark)
        inserted == [graph |-> pruned, grown |-> filled.grown]
        st0 == [tq |-> expired.tq, ni |-> expired.ni, emitted |-> <<>>,
                panics |-> expired.panics]
    IN IF expired.panics
       THEN {[graph |-> pruned, tq |-> tq, ni |-> ni, emitted |-> <<>>, processed |-> 0,
              panics |-> TRUE]}
       ELSE {[graph |-> inserted.graph, tq |-> st.tq, ni |-> st.ni,
              emitted |-> st.emitted, processed |-> Cardinality(inserted.grown),
              panics |-> st.panics] :
               st \in UNION {ProcessTransitions(st0, inserted.graph, steps) :
                               steps \in Steps(time_index, inserted.grown)}}


\* the whole notification of time low_watermark: the set of its outcomes
\* [graph, tq, ni, emitted, processed, panics], processed counting the tuples
\* of tuple_to_process
Notification(g, tq, ni, time_index, low_watermark) ==
    LET pruned == RemoveEdges(g, low_watermark)
        expired == ExpireTrees(tq, ni, low_watermark)
        inserted == InsertTuples(pruned, time_index, SetToSeq(DOMAIN time_index), {})
        st0 == [tq |-> expired.tq, ni |-> expired.ni, emitted |-> <<>>,
                panics |-> expired.panics]
    IN IF expired.panics
       THEN {[graph |-> pruned, tq |-> tq, ni |-> ni, emitted |-> <<>>, processed |-> 0,
              panics |-> TRUE]}
       ELSE {[graph |-> inserted.graph, tq |-> st.tq, ni |-> st.ni,
              emitted |-> st.emitted, processed |-> Cardinality(inserted.grown),
              panics |-> st.panics] :
               st \in UNION {ProcessTransitions(st0, inserted.graph, steps) :
                               steps \in Steps(time_index, inserted.grown)}}

(***************************************************************************)
(* The operator as a state machine.  Tuples arrive at the open time and    *)
(* are stashed; the notification of a time runs when the input has moved   *)
(* past it, and only for a time that received a tuple.                     *)
(***************************************************************************)
MaxTime  == 2      \* timely times 1..MaxTime
MaxBatch == 2      \* tuples with distinct keys stashed under one time
MaxArrivals == 2   \* tuples logged per time

Vertices == {1, 2}

\* window sizes of the sliding_window operators feeding the input (window.rs)
Windows == {1, 3}

\* intervals of the tuples sent at time t when the slide is one time unit
TupleIntervals(t) == {<<t, t + w>> : w \in Windows}

\* ... and when the window size is 0
ZeroIntervals(t) == {<<t, t>>}

Pred(l) == Elt(l, <<>>, "")

DriverQueries ==
    {<<<<Elt("a", <<>>, "+")>>>>,                                   \* a+
     <<<<Elt("a", <<>>, "*")>>>>,                                   \* a*
     <<<<Pred("a"), Pred("b")>>>>,                                  \* a/b
     <<<<Elt("", <<<<Pred("a")>>, <<Pred("b")>>>>, "+")>>>>,        \* (a|b)+
     <<<<Elt("", <<<<Pred("a"), Pred("b")>>>>, "*")>>>>}            \* (a/b)*

RecloseQueries == {<<<<Elt("a", <<>>, "+")>>>>, <<<<Elt("a", <<>>, "*")>>>>}

\* parse_rpq: the DFAs it can return for a parse tree
ParseRpq(q) ==
    UNION {{Minimize(d, order) : order \in MinimizeOrders(d)} :
             d \in {Determinize(ParsePath(q), ord) : ord \in SubsetOrders(ParsePath(q))}}

\* regular_path_query up to the closure handed to unary_notify
InitWith(queries) ==
    /\ query \in queries
    /\ stage = "idle"
    /\ nfa = NoNFA
    /\ dfa = NoDFA
    /\ mdfa = NoDFA
    /\ OpIdle
    /\ qdfa \in ParseRpq(query)
    /\ pq_replaces \in BOOLEAN
    /\ graph = Empty
    /\ tree_queue = Empty
    /\ node_index = {}
    /\ stash = Empty
    /\ arrived = <<>>
    /\ expand_queue = <<>>
    /\ now = 1
    /\ closed = FALSE
    /\ last_batch = [drained |-> 0, processed |-> 0]
    /\ emitted = <<>>
    /\ everEmitted = {}
    /\ fault = FALSE

Init == InitWith(DriverQueries)

\* nothing has arrived yet: the vertex names are interchangeable
Untouched ==
    DOMAIN graph = {} /\ DOMAIN tree_queue = {} /\ DOMAIN stash = {} /\ everEmitted = {}

\* mutant: a tuple with the end of the stashed one takes its place
StashedLast(time_index, tuple_key, tuple_interval) ==
    IF tuple_key \in DOMAIN time_index
    THEN IF time_index[tuple_key][2] <= tuple_interval[2]
         THEN [time_index EXCEPT ![tuple_key] = tuple_interval]
         ELSE time_index
    ELSE (tuple_key :> tuple_interval) @@ time_index

\* rpq.rs 68-74: the stash entry with one more tuple; the interval of the
\* larger end is kept for its key
Stashed(time_index, tuple_key, tuple_interval) ==
    IF tuple_key \in DOMAIN time_index
    THEN IF time_index[tuple_key][2] < tuple_interval[2]
         THEN [time_index EXCEPT ![tuple_key] = tuple_interval]
         ELSE time_index
    ELSE (tuple_key :> tuple_interval) @@ time_index

\* rpq.rs 60-77: a tuple of the input is stashed under the open time.  The
\* labels are those of the query (the runner sends no other), and the first
\* tuple of a run leaves vertex 1.  Where logged, the tuple is appended to
\* arrived, at most MaxArrivals tuples per time.
ArriveLogging(labels, intervals, logged) ==
    /\ ~fault
    /\ now <= MaxTime
    /\ logged => Len(arrived) < MaxArrivals
    /\ \E source \in Vertices, target \in Vertices, label \in labels,
          tuple_interval \in intervals :
          LET tuple_key == <<source, target, label>>
          IN /\ Untouched => source = 1
             /\ tuple_key \in DOMAIN stash \/ Cardinality(DOMAIN stash) < MaxBatch
             /\ stash' = Stashed(stash, tuple_key, tuple_interval)
             /\ arrived' = IF logged THEN Append(arrived, <<tuple_key, tuple_interval>>)
                           ELSE arrived
    /\ closed' = FALSE
    /\ UNCHANGED <<qdfa, pq_replaces, graph, tree_queue, node_index, expand_queue, now,
                   last_batch, emitted, everEmitted, fault, autVars, opVars>>

ArriveFrom(labels, intervals) == ArriveLogging(labels, intervals, FALSE)

ArriveWith(intervals) == ArriveFrom(DFAAlphabet(qdfa), intervals)

Arrive == ArriveWith(TupleIntervals(now))

\* rpq.rs 82-183: the notification of the open time, which received tuples
Close ==
    /\ ~fault
    /\ DOMAIN stash # {}
    /\ \E o \in Notification(graph, tree_queue, node_index, stash, now) :
          /\ graph' = o.graph
          /\ tree_queue' = o.tq
          /\ node_index' = o.ni
          /\ emitted' = o.emitted
          /\ everEmitted' = everEmitted \cup {<<e.root, e.vertex>> : e \in Range(o.emitted)}
          /\ fault' = o.panics
          /\ last_batch' = [drained |-> Cardinality(DOMAIN stash), processed |-> o.processed]
    /\ stash' = Empty
    /\ arrived' = <<>>
    /\ now' = now + 1
    /\ closed' = TRUE
    /\ UNCHANGED <<qdfa, pq_replaces, expand_queue, autVars, opVars>>

\* the input moves past a time that received no tuple: no notification
Skip ==
    /\ ~fault
    /\ DOMAIN stash = {}
    /\ now < MaxTime
    /\ now' = now + 1
    /\ closed' = FALSE
    /\ UNCHANGED <<qdfa, pq_replaces, graph, tree_queue, node_index, stash, arrived, expand_queue,
                   last_batch, emitted, everEmitted, fault, autVars, opVars>>

Next == Arrive \/ Close \/ Skip

Spec == Init /\ [][Next]_vars

\* the notification of the time closed last runs a second time
Reclose ==
    /\ ~fault
    /\ closed
    /\ \E o \in Notification(graph, tree_queue, node_index, Empty, now - 1) :
          /\ graph' = o.graph
          /\ tree_queue' = o.tq
          /\ node_index' = o.ni
          /\ emitted' = o.emitted
          /\ everEmitted' = everEmitted \cup {<<e.root, e.vertex>> : e \in Range(o.emitted)}
          /\ fault' = o.panics
          /\ last_batch' = [drained |-> 0, processed |-> o.processed]
    /\ UNCHANGED <<qdfa, pq_replaces, stash, arrived, expand_queue, now, closed, autVars, opVars>>

ArriveZero == ArriveWith(ZeroIntervals(now))

NextReclose == Arrive \/ ArriveZero \/ Close \/ Skip \/ Reclose

SpecReclose == InitWith(RecloseQueries) /\ [][NextReclose]_vars

(***************************************************************************)
(* The operator on a stream that no label filter precedes: the tuples      *)
(* carry any label, and windows of 1 and 2 time units.                     *)
(***************************************************************************)
StreamQueries == {<<<<Elt("a", <<>>, "+")>>>>}                      \* a+

StreamIntervals(t) == {<<t, t + 1>>, <<t, t + 2>>}

ArriveAny == ArriveFrom(Labels, StreamIntervals(now))

NextStream == ArriveAny \/ Close \/ Skip

SpecStream == InitWith(StreamQueries) /\ [][NextStream]_vars

(***************************************************************************)
(* parse_rpq on a query string (query/parser/mod.rs 21-41).  The string is *)
(* given by what RPQParser::parse makes of it: an error for a string the   *)
(* grammar rejects, or the pairs of a Path.                                *)
(***************************************************************************)
\* a modifier other than * and +
BoundedMod == "{2}"

PestElts ==
    {Elt(l, <<>>, m) : l \in Labels, m \in Mods \cup {BoundedMod}}
    \cup {Elt("", <<<<Elt("a", <<>>, m)>>>>, "*") : m \in {"", BoundedMod}}

\* the Path pairs: a Path without inner pair, or one alternative of one or two
\* elements
PestPaths == {<<>>} \cup {<<s>> : s \in SeqsOver(PestElts, 2)}

\* parse_path and the functions under it return Err
RECURSIVE ParsePathIsErr(_)
ParsePathIsErr(p) ==
    \/ p = <<>>
    \/ \E i \in 1..Len(p) :
          \/ p[i] = <<>>
          \/ \E j \in 1..Len(p[i]) :
                \/ p[i][j].sub # <<>> /\ ParsePathIsErr(p[i][j].sub)
                \/ p[i][j].mod \notin Mods

\* the ways parse_rpq ends: Ok(dfa), Err(message), or a panic
ParseRpqOutcomes(pest_ok, path) ==
    IF ~pest_ok THEN {[kind |-> "panic", dfa |-> NoDFA]}
    ELSE IF ParsePathIsErr(path) THEN {[kind |-> "err", dfa |-> NoDFA]}
    ELSE {[kind |-> "ok", dfa |-> d] : d \in ParseRpq(path)}

InitParse ==
    /\ stage \in {"pest_ok", "pest_error"}
    /\ query \in IF stage = "pest_ok" THEN PestPaths ELSE {<<>>}
    /\ nfa = NoNFA
    /\ dfa = NoDFA
    /\ mdfa = NoDFA
    /\ OpIdle
    /\ DriverIdle

DoParseRpq ==
    /\ stage \in {"pest_ok", "pest_error"}
    /\ \E o \in ParseRpqOutcomes(stage = "pest_ok", query) :
          /\ stage' = o.kind
          /\ mdfa' = o.dfa
          /\ fault' = (o.kind = "panic")
    /\ UNCHANGED <<query, nfa, dfa, opVars, qdfa, pq_replaces, graph, tree_queue,
                   node_index, stash, arrived, expand_queue, now, closed, last_batch, emitted,
                   everEmitted>>

NextParse == DoParseRpq

SpecParse == InitParse /\ [][NextParse]_vars

(***************************************************************************)
(* MinPQIndex alone (operator/mod.rs 132-199): a queue under any sequence  *)
(* of its operations.  The queue is held in graph, and last_batch records  *)
(* the last call and what it returned.                                     *)
(***************************************************************************)
PQKeys == {1, 2}
PQValues == {"x", "y"}
PQPriorities == 0..3

\* None, as returned for an absent key or an empty queue
PQNone == [key |-> 0, val |-> "", prio |-> 0 - 1]

\* peek: the entries it can return; the entries of least priority
PQPeek(q) ==
    IF DOMAIN q = {} THEN {PQNone}
    ELSE {[key |-> k, val |-> q[k].val, prio |-> q[k].prio] :
            k \in {x \in DOMAIN q : q[x].prio = PQMinPriority(q)}}

\* pop: [ret, q] for each entry it can extract
PQPop(q) ==
    {[ret |-> e, q |-> IF e = PQNone THEN q ELSE PQRemove(q, e.key)] : e \in PQPeek(q)}

PQCall(op, key, value, priority, ret) ==
    [op |-> op, key |-> key, val |-> value, prio |-> priority, ret |-> ret]

InitPQ ==
    /\ query = <<>>
    /\ stage = "idle"
    /\ nfa = NoNFA
    /\ dfa = NoDFA
    /\ mdfa = NoDFA
    /\ OpIdle
    /\ qdfa = NoDFA
    /\ pq_replaces \in BOOLEAN
    /\ graph = Empty
    /\ tree_queue = Empty
    /\ node_index = {}
    /\ stash = Empty
    /\ arrived = <<>>
    /\ expand_queue = <<>>
    /\ now = 0
    /\ closed = FALSE
    /\ last_batch = PQCall("new", 0, "", 0, PQNone)
    /\ emitted = <<>>
    /\ everEmitted = {}
    /\ fault = FALSE

PQFrame ==
    UNCHANGED <<autVars, opVars, qdfa, pq_replaces, tree_queue, node_index, stash, arrived,
                expand_queue, now,                 closed, emitted, everEmitted, fault>>

DoPush ==
    /\ \E key \in PQKeys, value \in PQValues, priority \in PQPriorities :
          /\ graph' = PQPush(graph, key, value, priority)
          /\ last_batch' = PQCall("push", key, value, priority, PQNone)
    /\ PQFrame

DoChangePriority ==
    /\ \E key \in PQKeys, priority \in PQPriorities :
          /\ graph' = PQChangePriority(graph, key, priority)
          /\ last_batch' = PQCall("change_priority", key, "", priority, PQNone)
    /\ PQFrame

DoTryDecreasePriority ==
    /\ \E key \in PQKeys, priority \in PQPriorities :
          /\ graph' = PQTryDecreasePriority(graph, key, priority)
          /\ last_batch' = PQCall("try_decrease_priority", key, "", priority, PQNone)
    /\ PQFrame

DoPeek ==
    /\ \E e \in PQPeek(graph) :
          /\ graph' = graph
          /\ last_batch' = PQCall("peek", 0, "", 0, e)
    /\ PQFrame

DoPop ==
    /\ \E o \in PQPop(graph) :
          /\ graph' = o.q
          /\ last_batch' = PQCall("pop", 0, "", 0, o.ret)
    /\ PQFrame

DoRemove ==
    /\ \E key \in PQKeys :
          /\ graph' = PQRemove(graph, key)
          /\ last_batch' = PQCall("remove", key, "", 0, PQNone)
    /\ PQFrame

NextPQ == DoPush \/ DoChangePriority \/ DoTryDecreasePriority \/ DoPeek \/ DoPop \/ DoRemove

SpecPQ == InitPQ /\ [][NextPQ]_vars

(***************************************************************************)
(* The stash under a logged input (rpq.rs 60-77): tuples of one timely     *)
(* time whose edges carry different timestamps, so that intervals of one   *)
(* end and different starts meet.                                          *)
(***************************************************************************)
StashIntervals(t) == {<<t, t + 1>>, <<t, t + 2>>, <<t + 1, t + 2>>}

ArriveLogged == ArriveLogging(DFAAlphabet(qdfa), StashIntervals(now), TRUE)

NextStash == ArriveLogged \/ Close \/ Skip

SpecStash == InitWith(StreamQueries) /\ [][NextStash]_vars

(***************************************************************************)
(* The backward view of the DFA and of the graph (dfa.rs 42-47, 61-63;     *)
(* graph/mod.rs 179-187).  backward_transitions keeps, for a target state  *)
(* and a label, the source of the first add_transition; minimize adds the  *)
(* transitions in the iteration order of hash sets, so the table is one of *)
(* those of the orders of the transitions that give the DFA its forward    *)
(* table.                                                                  *)
(***************************************************************************)
\* backward_transitions after add_transition for the triples of seq, in
\* order: <<target, label, source>>
RECURSIVE DFABackwardOf(_, _, _)
DFABackwardOf(seq, i, table) ==
    IF i > Len(seq) THEN table
    ELSE DFABackwardOf(seq, i + 1,
            IF \E b \in table : b[1] = seq[i][3] /\ b[2] = seq[i][2] THEN table
            ELSE table \cup {<<seq[i][3], seq[i][2], seq[i][1]>>})

DFABackwardTables(D) ==
    {DFABackwardOf(seq, 1, {}) :
        seq \in {p \in Perms(D.transitions) :
                    DFAAddAll(NewDFA(D.num_states, D.final_states), p, 1).forward = D.forward}}

\* get_incoming_transitions of a DFA with the backward table: <<label, source>>
DFAGetIncomingTransitions(backward, state) ==
    {<<b[2], b[3]>> : b \in {x \in backward : x[1] = state}}

\* Graph::get_incoming_edges: <<<<vertex, state>>, interval>>
GetIncomingEdges(g, backward, vertex, state) ==
    UNION {{<<<<e[1], tr[2]>>, <<e[2], e[3]>>>> :
              e \in NodeIncomingEdges(g[vertex].val, tr[1])} :
            tr \in IF vertex \in DOMAIN g THEN DFAGetIncomingTransitions(backward, state)
                   ELSE {}}
(***************************************************************************)
(* tree_expand one iteration at a time (operator/rpq.rs 194-266): the work *)
(* queue of the call is expand_queue, the tree is the one tree of          *)
(* tree_queue, and last_batch holds the reachability_results of the call.  *)
(* Between two calls an edge is stored in the graph.                       *)
(***************************************************************************)
MaxExpandEdges == 3     \* edges stored in the graph

ExpandRoot == 1         \* root vertex of the tree that is expanded

\* DFAs with a state that loops, and with a cycle through two states
ExpandQueries ==
    {<<<<Elt("a", <<>>, "+")>>>>,                                   \* a+
     <<<<Elt("a", <<>>, "*")>>>>,                                   \* a*
     <<<<Elt("", <<<<Pred("a"), Pred("b")>>>>, "*")>>>>}            \* (a/b)*

ExpandIntervals == {<<1, 2>>, <<1, 3>>, <<2, 3>>}

\* mutant: a candidate whose end equals the node's end is enqueued again
ExpandStepRevisits(tree, g, queue, reachability_results) ==
    LET node == queue[1][1]
        child == queue[1][2]
        child_ts == queue[1][3]
        rest == Tail(queue)
        is_root == tree.root_vertex = node
        skipped == {[tree |-> tree, queue |-> rest, results |-> reachability_results,
                     panics |-> FALSE]}
    IN
    IF ~(is_root \/ (TreeContains(tree, node)
                      /\ Overlaps(GetInterval(tree, node), child_ts)))
    THEN skipped
    ELSE IF ~TreeContains(tree, child)
    THEN
      LET added == AddVertex(tree, child, child_ts, node)
          child_interval == GetInterval(added, child)
          neighbours == {{x \in grp : Overlaps(child_interval, x[2])} :
                           grp \in GetOutgoingEdges(g, qdfa, child[1], child[2])}
      IN {[tree |-> added, queue |-> Enqueue(rest, child, ord),
           results |-> Append(reachability_results, <<child, child_interval>>),
           panics |-> FALSE] : ord \in GroupOrders(neighbours)}
    ELSE
      LET new_interval == IF is_root THEN child_ts
                          ELSE Intersect(child_ts, GetInterval(tree, node))
          old_expiry_timestamp == GetInterval(tree, child)[2]
      IN
      IF old_expiry_timestamp <= new_interval[2]
      THEN
        IF UpdateParentPanics(tree, child)
        THEN {[tree |-> tree, queue |-> rest, results |-> reachability_results,
               panics |-> TRUE]}
        ELSE
          LET moved == UpdateNodeExpiry(
                          SetInterval(UpdateParent(tree, child, node, child_ts),
                                      child, new_interval),
                          child, new_interval[2])
              neighbours == GetOutgoingEdgesLargerThan(g, qdfa, child[1], child[2],
                                                       old_expiry_timestamp - 1)
          IN {[tree |-> moved, queue |-> Enqueue(rest, child, ord),
               results |-> Append(reachability_results, <<child, new_interval>>),
               panics |-> FALSE] : ord \in GroupOrders(neighbours)}
      ELSE skipped

\* the body of `while !queue.is_empty()`, from queue.pop_front() on:
\* [tree, queue, results, panics] after one iteration, for each order of the
\* iterator over the outgoing edges
ExpandStep(tree, g, queue, reachability_results) ==
    LET node == queue[1][1]
        child == queue[1][2]
        child_ts == queue[1][3]
        rest == Tail(queue)
        is_root == tree.root_vertex = node
        skipped == {[tree |-> tree, queue |-> rest, results |-> reachability_results,
                     panics |-> FALSE]}
    IN
    IF ~(is_root \/ (TreeContains(tree, node)
                      /\ Overlaps(GetInterval(tree, node), child_ts)))
    THEN skipped
    ELSE IF ~TreeContains(tree, child)
    THEN
      LET added == AddVertex(tree, child, child_ts, node)
          child_interval == GetInterval(added, child)
          neighbours == {{x \in grp : Overlaps(child_interval, x[2])} :
                           grp \in GetOutgoingEdges(g, qdfa, child[1], child[2])}
      IN {[tree |-> added, queue |-> Enqueue(rest, child, ord),
           results |-> Append(reachability_results, <<child, child_interval>>),
           panics |-> FALSE] : ord \in GroupOrders(neighbours)}
    ELSE
      LET new_interval == IF is_root THEN child_ts
                          ELSE Intersect(child_ts, GetInterval(tree, node))
          old_expiry_timestamp == GetInterval(tree, child)[2]
      IN
      IF old_expiry_timestamp < new_interval[2]
      THEN
        IF UpdateParentPanics(tree, child)
        THEN {[tree |-> tree, queue |-> rest, results |-> reachability_results,
               panics |-> TRUE]}
        ELSE
          LET moved == UpdateNodeExpiry(
                          SetInterval(UpdateParent(tree, child, node, child_ts),
                                      child, new_interval),
                          child, new_interval[2])
              neighbours == GetOutgoingEdgesLargerThan(g, qdfa, child[1], child[2],
                                                       old_expiry_timestamp)
          IN {[tree |-> moved, queue |-> Enqueue(rest, child, ord),
               results |-> Append(reachability_results, <<child, new_interval>>),
               panics |-> FALSE] : ord \in GroupOrders(neighbours)}
      ELSE skipped

\* the edges the graph holds: <<source, label, target, interval>>
GraphEdges(g) ==
    UNION {UNION {{<<u, l, e[1], <<e[2], e[3]>>>> : e \in NodeOutgoingEdges(g[u].val, l)} :
                    l \in DOMAIN g[u].val.outgoing_edges} : u \in DOMAIN g}

InitExpand ==
    /\ query \in ExpandQueries
    /\ stage = "idle"
    /\ nfa = NoNFA
    /\ dfa = NoDFA
    /\ mdfa = NoDFA
    /\ OpIdle
    /\ qdfa \in ParseRpq(query)
    /\ pq_replaces \in BOOLEAN
    /\ graph = Empty
    /\ tree_queue = AddSpanningTree({}, Empty, ExpandRoot).tq
    /\ node_index = {}
    /\ stash = Empty
    /\ arrived = <<>>
    /\ expand_queue = <<>>
    /\ now = 1
    /\ closed = FALSE
    /\ last_batch = [results |-> <<>>]
    /\ emitted = <<>>
    /\ everEmitted = {}
    /\ fault = FALSE

ExpandFrame ==
    UNCHANGED <<autVars, opVars, qdfa, pq_replaces, node_index, stash, arrived, now, closed,
                emitted, everEmitted>>

\* between two calls: insert_edge of a tuple
StoreEdge ==
    /\ ~fault
    /\ expand_queue = <<>>
    /\ \E source \in Vertices, target \in Vertices, label \in DFAAlphabet(qdfa),
          interval \in ExpandIntervals :
          /\ \/ Cardinality(GraphEdges(graph)) < MaxExpandEdges
             \/ \E e \in GraphEdges(graph) : e[1] = source /\ e[2] = label /\ e[3] = target
          /\ graph' = InsertEdge(graph, source, label, target, interval).graph
    /\ UNCHANGED <<tree_queue, expand_queue, last_batch, fault>>
    /\ ExpandFrame

\* the call: `queue.push_back(((source_vertex, source_state), (target_vertex,
\* target_state), edge_ts))` for a stored edge and a transition of its label
StartExpand ==
    /\ ~fault
    /\ expand_queue = <<>>
    /\ \E e \in GraphEdges(graph) :
         \E tr \in DFAGetTransitions(qdfa, e[2]) :
            expand_queue' = <<<<<<e[1], tr[1]>>, <<e[3], tr[2]>>, e[4]>>>>
    /\ last_batch' = [results |-> <<>>]
    /\ UNCHANGED <<graph, tree_queue, fault>>
    /\ ExpandFrame

\* one iteration of the loop
ExpandOnce ==
    /\ ~fault
    /\ expand_queue # <<>>
    /\ \E o \in ExpandStep(tree_queue[ExpandRoot].val, graph, expand_queue, last_batch.results) :
          /\ tree_queue' = [tree_queue EXCEPT ![ExpandRoot].val = o.tree]
          /\ expand_queue' = o.queue
          /\ last_batch' = [results |-> o.results]
          /\ fault' = o.panics
    /\ UNCHANGED graph
    /\ ExpandFrame

NextExpand == StoreEdge \/ StartExpand \/ ExpandOnce

\* the loop runs on until the call returns
SpecExpand == InitExpand /\ [][NextExpand]_vars /\ WF_vars(ExpandOnce)

(***************************************************************************)
(* Reference semantics: the language of a parse tree, and of an automaton  *)
(***************************************************************************)
WordsOver(alphabet) == {w \in Words : \A i \in 1..Len(w) : w[i] \in alphabet}

Prefix(w, k) == SubSeq(w, 1, k)
Suffix(w, k) == SubSeq(w, k + 1, Len(w))

RECURSIVE MatchPath(_, _), MatchSeq(_, _, _), MatchElt(_, _), MatchStar(_, _), MatchPrimary(_, _)

MatchPrimary(e, w) == IF e.sub = <<>> THEN w = <<e.pred>> ELSE MatchPath(e.sub, w)

MatchStar(e, w) ==
    \/ w = <<>>
    \/ \E k \in 1..Len(w) : MatchPrimary(e, Prefix(w, k)) /\ MatchStar(e, Suffix(w, k))

MatchElt(e, w) ==
    IF e.mod = "*" THEN MatchStar(e, w)
    ELSE IF e.mod = "+"
         THEN \E k \in 0..Len(w) : MatchPrimary(e, Prefix(w, k)) /\ MatchStar(e, Suffix(w, k))
         ELSE MatchPrimary(e, w)

MatchSeq(s, n, w) ==
    IF n = 1 THEN MatchElt(s[1], w)
    ELSE \E k \in 0..Len(w) : MatchSeq(s, n - 1, Prefix(w, k)) /\ MatchElt(s[n], Suffix(w, k))

MatchPath(p, w) == \E i \in 1..Len(p) : MatchSeq(p[i], Len(p[i]), w)

\* w is in the language of the NFA (a word with a foreign label is not)
InNFA(A, w) == (\A i \in 1..Len(w) : w[i] \in NFAAlphabet(A)) /\ NFAAccept(A, w)

RECURSIVE InNFAStar(_, _)
InNFAStar(A, w) ==
    \/ w = <<>>
    \/ \E k \in 1..Len(w) : InNFA(A, Prefix(w, k)) /\ InNFAStar(A, Suffix(w, k))

\* C4: the DFA returned by parse_rpq accepts a word over its alphabet iff
\* the word is in the language of the regular expression.
C4_CompilationCorrect ==
    stage = "min" =>
        \A w \in WordsOver(DFAAlphabet(mdfa)) : DFAAccept(mdfa, w) <=> MatchPath(query, w)

\* the refinement has reached a fixpoint: no block of the final partition
\* holds two states that the partition tells apart
PartitionStable(D) ==
    LET np == FinalPartitions(D)
    IN \A k \in 1..Len(np) : \A s1 \in np[k], s2 \in np[k] : ~IsDistinguishable(D, np, s1, s2)

\* C5: minimize runs the refinement until no block can be split, keeps the
\* language of its input and does not add states.
C5_MinimizePreservesLanguage ==
    stage = "min" =>
        /\ PartitionStable(dfa)
        /\ \A w \in WordsOver(DFAAlphabet(dfa)) : DFAAccept(mdfa, w) <=> DFAAccept(dfa, w)
        /\ mdfa.num_states <= dfa.num_states

DFAStates(D) == 0..(D.num_states - 1)

Complete(D) == \A s \in DFAStates(D), l \in DFAAlphabet(D) : DFAStateMove(D, s, l) # NoState

\* two states accept the same suffixes (up to the word bound)
Equivalent(D, s1, s2) == \A w \in Words : DFARun(D, s1, w, 1) <=> DFARun(D, s2, w, 1)

NoEquivalentStates(D) == \A s1 \in DFAStates(D), s2 \in DFAStates(D) : s1 # s2 => ~Equivalent(D, s1, s2)

C7_DeterminizePreservesLanguage ==
    stage = "dfa" =>
        /\ \A w \in WordsOver(NFAAlphabet(nfa)) : DFAAccept(dfa, w) <=> NFAAccept(nfa, w)
        /\ DFAAlphabet(dfa) = NFAAlphabet(nfa)
        /\ DFAIsFinalState(dfa, 0) <=> (GetEpsilonClosure(nfa, 0) \cap nfa.final_states # {})

C7_Witness ==
    /\ stage = "dfa"
    /\ dfa.num_states >= 3
    /\ \E w \in Words : Len(w) >= 3 /\ InNFA(nfa, w)

\* C8: the languages of the Thompson helpers.
C8_ThompsonLanguages ==
    /\ opKind = "transition" =>
          \A w \in Words : InNFA(opRes, w) <=> w = <<opLabel>>
    /\ opKind = "concatenation" =>
          \A w \in Words : InNFA(opRes, w) <=>
              \E k \in 0..Len(w) : InNFA(opLhs, Prefix(w, k)) /\ InNFA(opRhs, Suffix(w, k))
    /\ opKind = "alternation" =>
          \A w \in Words : InNFA(opRes, w) <=> (InNFA(opLhs, w) \/ InNFA(opRhs, w))
    /\ opKind = "kleene_star" =>
          \A w \in Words : InNFA(opRes, w) <=> InNFAStar(opLhs, w)
    /\ opKind = "kleene_plus" =>
          /\ \A w \in Words : InNFA(opRes, w) <=>
                \E k \in 0..Len(w) : InNFA(opLhs, Prefix(w, k)) /\ InNFAStar(opLhs, Suffix(w, k))
          /\ (~InNFA(opLhs, <<>>) => ~InNFA(opRes, <<>>))

C8_Witness ==
    /\ opKind = "kleene_plus"
    /\ ~InNFA(opLhs, <<>>)
    /\ \E w \in Words : Len(w) >= 3 /\ InNFA(opRes, w) /\ ~InNFA(opLhs, w)

(***************************************************************************)
(* Reference semantics of the streaming operator: the paths of the stored  *)
(* product graph, computed without the spanning trees.                     *)
(***************************************************************************)
\* the stored edges <<source, label, target, interval>>
StoredEdges(g) ==
    UNION {UNION {{<<u, l, e[1], <<e[2], e[3]>>>> : e \in NodeOutgoingEdges(g[u].val, l)} :
                    l \in DOMAIN g[u].val.outgoing_edges} : u \in DOMAIN g}

NonEmpty(interval) == interval[1] < interval[2]

\* <<v, s, I>> for the one-edge paths (r, 0) -> (v, s); I is the edge's interval
FirstEdges(g, r) ==
    {<<e[3], DFAStateMove(qdfa, 0, e[2]), e[4]>> :
        e \in {x \in StoredEdges(g) : x[1] = r /\ DFAStateMove(qdfa, 0, x[2]) # NoState}}

\* ... extended by one more stored edge whose interval meets the path's
\* intersection I in a non-empty interval
ExtendPaths(g, R) ==
    R \cup {<<p[2][3], DFAStateMove(qdfa, p[1][2], p[2][2]), Intersect(p[1][3], p[2][4])>> :
              p \in {q \in R \X StoredEdges(g) :
                       /\ q[2][1] = q[1][1]
                       /\ DFAStateMove(qdfa, q[1][2], q[2][2]) # NoState
                       /\ NonEmpty(Intersect(q[1][3], q[2][4]))}}

RECURSIVE PathClosure(_, _)
PathClosure(g, R) ==
    IF ExtendPaths(g, R) = R THEN R ELSE PathClosure(g, ExtendPaths(g, R))

\* <<v, s, I>>: a non-empty path (r, 0) -> ... -> (v, s) of stored edges exists
\* whose intervals intersect in exactly I
PathsFrom(g, r) == PathClosure(g, FirstEdges(g, r))

\* the pairs (r, v) joined by a path into a final state with a non-empty
\* intersection
AlivePairs(g) ==
    UNION {{<<r, x[1]>> : x \in {y \in PathsFrom(g, r) :
                                   DFAIsFinalState(qdfa, y[2]) /\ NonEmpty(y[3])}} :
             r \in DOMAIN g}

\* the adjacency tables of the vertices, without the vertices' priorities
Adjacency(g) == [k \in DOMAIN g |-> g[k].val]

\* the end of node (v, s) in tree r, NoState where the tree lacks the node
NodeEnd(tq, r, node) ==
    IF r \in DOMAIN tq /\ TreeContains(tq[r].val, node)
    THEN GetInterval(tq[r].val, node)[2]
    ELSE NoState

\* the step is the notification of the open time
IsClose == closed' /\ now' = now + 1

\* the step runs the notification of the time closed last once more
IsReclose == closed /\ closed' /\ now' = now

(***************************************************************************)
(* The operator's properties                                               *)
(***************************************************************************)
\* C1: completeness.  After a notification, every pair (r, v) joined in the
\* stored product graph by a non-empty path (r, 0) -> ... -> (v, f), f final,
\* whose intervals intersect in a non-empty interval, has been emitted.
C1_Completeness == ~fault => AlivePairs(graph) \subseteq everEmitted

\* C2: soundness.  Every result (r, v, I) of a notification has a non-empty
\* path (r, 0) -> ... -> (v, f), f final, in the product graph stored at that
\* moment, whose intervals intersect in exactly I.
C2_Soundness ==
    (closed /\ ~fault) =>
        \A i \in 1..Len(emitted) :
            /\ DFAIsFinalState(qdfa, emitted[i].state)
            /\ <<emitted[i].vertex, emitted[i].state, emitted[i].interval>>
                   \in PathsFrom(graph, emitted[i].root)

\* the results of a notification for node (v, s) of tree r, in emission order
EmittedFor(all, r, v, s) ==
    LET Match(e) == e.root = r /\ e.vertex = v /\ e.state = s
    IN SelectSeq(all, Match)

C3_Step ==
    IsClose =>
        LET pre == ExpireTrees(tree_queue, node_index, now).tq
        IN /\ \A i \in 1..Len(emitted') : DFAIsFinalState(qdfa, emitted'[i].state)
           /\ \A r \in Vertices, v \in Vertices, s \in qdfa.final_states :
                LET E == EmittedFor(emitted', r, v, s)
                    before == NodeEnd(pre, r, <<v, s>>)
                    after == NodeEnd(tree_queue', r, <<v, s>>)
                IN /\ \A i \in 1..(Len(E) - 1) : E[i].interval[2] < E[i + 1].interval[2]
                   /\ E # <<>> =>
                        /\ before < E[1].interval[2]
                        /\ after # NoState
                        /\ E[Len(E)].interval = GetInterval(tree_queue'[r].val, <<v, s>>)
                   /\ E = <<>> => after = before

\* C3: emission rule.  A notification emits (r, v, I) exactly when node (v, s)
\* of tree r, s final, is created or its end strictly grows, once per such
\* event and with the node's interval after it: the results of one node have
\* strictly growing ends, the first above the end the node had, the last the
\* interval the node is left with; a node that is not created and does not
\* grow, and a node of a state that is not final, has no result.
C3_EmissionRule == [][C3_Step]_vars

\* a notification created a node of a final state and then made it grow
C3_Witness ==
    /\ closed
    /\ \E i, j \in 1..Len(emitted) :
          /\ i < j
          /\ emitted[i].root = emitted[j].root
          /\ emitted[i].vertex = emitted[j].vertex
          /\ emitted[i].state = emitted[j].state
          /\ emitted[i].interval[2] < emitted[j].interval[2]

\* every stashed tuple is stored, after the eviction of the open time, with an
\* end that the tuple's end does not exceed
AllStoredNoSmaller ==
    /\ DOMAIN stash # {}
    /\ \A key \in DOMAIN stash :
          \E e \in StoredEdges(RemoveEdges(graph, now)) :
              e[1] = key[1] /\ e[2] = key[3] /\ e[3] = key[2] /\ e[4][2] >= stash[key][2]

C9_Step ==
    (IsClose /\ AllStoredNoSmaller) =>
        /\ Adjacency(graph') = Adjacency(RemoveEdges(graph, now))
        /\ tree_queue' = ExpireTrees(tree_queue, node_index, now).tq
        /\ node_index' = ExpireTrees(tree_queue, node_index, now).ni
        /\ emitted' = <<>>

C10_Step ==
    IsReclose =>
        /\ emitted' = <<>>
        /\ graph' = graph
        /\ tree_queue' = tree_queue
        /\ node_index' = node_index

\* C10: the notification of a time run a second time, with no tuple arrived
\* in between, emits nothing and leaves the graph, the trees, the priorities
\* of tree_queue and node_index as the first run left them.
C10_CloseIdempotent == [][C10_Step]_vars

(***************************************************************************)
(* The product graph's properties                                          *)
(***************************************************************************)
\* the stored edges <<source, label, target, interval>> of the backward tables
StoredInEdges(g) ==
    UNION {UNION {{<<e[1], l, v, <<e[2], e[3]>>>> : e \in NodeIncomingEdges(g[v].val, l)} :
                    l \in DOMAIN g[v].val.incoming_edges} : v \in DOMAIN g}

\* the end that the edges E hold for a triple, NoState where they hold none
StoredEnd(E, u, l, v) ==
    IF \E e \in E : e[1] = u /\ e[2] = l /\ e[3] = v
    THEN (CHOOSE e \in E : e[1] = u /\ e[2] = l /\ e[3] = v)[4][2]
    ELSE NoState

\* the end of a triple after the tuples of a batch are inserted into edges E
EndAfterInsert(E, batch, u, l, v) ==
    IF <<u, v, l>> \in DOMAIN batch
    THEN Max(StoredEnd(E, u, l, v), batch[<<u, v, l>>][2])
    ELSE StoredEnd(E, u, l, v)

C11_Step ==
    IsClose =>
        LET before == StoredEdges(RemoveEdges(graph, now))
        IN /\ \A u \in Vertices, v \in Vertices, l \in Labels :
                /\ StoredEnd(StoredEdges(graph'), u, l, v)
                       = EndAfterInsert(before, stash, u, l, v)
                /\ StoredEnd(StoredInEdges(graph'), u, l, v)
                       = EndAfterInsert(before, stash, u, l, v)
           /\ last_batch'.processed =
                  Cardinality({key \in DOMAIN stash :
                                 StoredEnd(before, key[1], key[3], key[2]) < stash[key][2]})

\* C11: insert_edge is an upsert.  After the tuples of a notification are
\* inserted, a triple holds, in both adjacency tables, the larger of the end
\* it held and the end inserted (the end inserted where it held none), and
\* insert_edge returned true for exactly the tuples whose triple was absent
\* or held a strictly smaller end.
C11_Upsert == [][C11_Step]_vars

\* a notification inserted two tuples, one that grew its triple and one
\* that did not
C11_Witness == closed /\ last_batch.drained = 2 /\ last_batch.processed = 1

\* the vertices with an edge among E
Incident(E) == {e[1] : e \in E} \cup {e[3] : e \in E}

\* C12: eviction.  For every watermark w, remove_edges(w) on the stored graph
\* leaves, in the forward and in the backward tables, exactly the edges whose
\* end exceeds w, and exactly the vertices that keep an edge.
C12_EvictionCorrect ==
    \A w \in 0..(MaxTime + 3) :
        LET pruned == RemoveEdges(graph, w)
        IN /\ StoredEdges(pruned) = {e \in StoredEdges(graph) : e[4][2] > w}
           /\ StoredInEdges(pruned) = {e \in StoredInEdges(graph) : e[4][2] > w}
           /\ DOMAIN pruned = Incident(StoredEdges(pruned))

\* the graph holds a vertex whose priority is below the end of each of its
\* edges (an end was raised), and some watermark evicts a part of the edges
\* and of the vertices
C12_Witness ==
    /\ \E k \in DOMAIN graph :
          \A e \in StoredEdges(graph) : (e[1] = k \/ e[3] = k) => graph[k].prio < e[4][2]
    /\ \E w \in 0..(MaxTime + 3) :
          /\ DOMAIN RemoveEdges(graph, w) # {}
          /\ DOMAIN RemoveEdges(graph, w) # DOMAIN graph

C13_Step == IsClose => \A e \in StoredEdges(graph') : e[4][2] > now

\* C13: watermark invariant.  After the notification of time w every stored
\* edge has an end above w.
C13_WatermarkInvariant == [][C13_Step]_vars

(***************************************************************************)
(* Delta's properties                                                      *)
(***************************************************************************)
\* C14: invariant D1.  After a notification, r is in node_index[(v, s)]
\* exactly when the tree rooted at r exists and holds (v, s), the root
\* counting as (r, 0).
C14_NodeIndexExact ==
    (closed /\ ~fault) =>
        \A r \in Vertices, v \in Vertices, s \in DFAStates(qdfa) :
            (<<v, s, r>> \in node_index)
                <=> /\ r \in DOMAIN tree_queue
                    /\ (<<v, s>> = <<r, 0>> \/ TreeContains(tree_queue[r].val, <<v, s>>))

\* the tuple of the stash extends the edges the eviction of the open time leaves
Grows(key) ==
    StoredEnd(StoredEdges(RemoveEdges(graph, now)), key[1], key[3], key[2]) < stash[key][2]

\* the nodes of a tree whose interval ends at or before w, and the others
GoneNodes(tree, w) ==
    {n \in DOMAIN tree.node_queue : tree.node_queue[n].val.timestamp[2] <= w}

LeftNodes(tree, w) == DOMAIN tree.node_queue \ GoneNodes(tree, w)

C15_Step ==
    IsClose =>
        LET ev == ExpireTrees(tree_queue, node_index, now)
        IN /\ \A r \in DOMAIN tree_queue' : ~TreeIsEmpty(tree_queue'[r].val)
           /\ \A r \in DOMAIN tree_queue :
                /\ r \notin DOMAIN ev.tq <=> LeftNodes(tree_queue[r].val, now) = {}
                /\ r \notin DOMAIN ev.tq => \A x \in ev.ni : x[3] # r
           /\ DOMAIN ev.tq \subseteq DOMAIN tree_queue'
           /\ \A r \in DOMAIN tree_queue' \ DOMAIN ev.tq :
                \E key \in DOMAIN stash :
                    /\ key[1] = r
                    /\ DFAStateMove(qdfa, 0, key[3]) # NoState
                    /\ Grows(key)

MinEnd(tree, S) ==
    CHOOSE e \in {tree.node_queue[n].val.timestamp[2] : n \in S} :
        \A n \in S : e <= tree.node_queue[n].val.timestamp[2]

\* the eviction with watermark w treats tree r as C16 states
EvictedAsStated(r, w) ==
    LET ev == ExpireTrees(tree_queue, node_index, w)
        old == tree_queue[r].val
        gone == GoneNodes(old, w)
        left == LeftNodes(old, w)
    IN /\ \A n \in gone : <<n[1], n[2], r>> \notin ev.ni
       /\ left = {} => r \notin DOMAIN ev.tq
       /\ left # {} =>
            /\ r \in DOMAIN ev.tq
            /\ ev.tq[r].prio = MinEnd(old, left)
            /\ DOMAIN ev.tq[r].val.node_queue = left
            /\ ev.tq[r].val.root_node.children \subseteq left
            /\ \A n \in left :
                 LET was == old.node_queue[n]
                     is == ev.tq[r].val.node_queue[n]
                 IN /\ is.prio = was.prio
                    /\ is.val.timestamp = was.val.timestamp
                    /\ is.val.incoming_edge_ts = was.val.incoming_edge_ts
                    /\ is.val.parent = was.val.parent
                    /\ is.val.parent \in left \cup {old.root_vertex}
                    /\ is.val.children \subseteq left
                    /\ <<n[1], n[2], r>> \in ev.ni <=> <<n[1], n[2], r>> \in node_index

\* C16: tree eviction.  For every watermark w the eviction phase removes from
\* every tree exactly the nodes whose interval ends at or before w, removes
\* them from node_index under that root, and leaves no node whose parent or
\* children name a removed node; no unwrap of it fails.
C16_TreeEviction ==
    ~fault =>
        \A w \in 0..(MaxTime + 3) :
            /\ ~ExpireTrees(tree_queue, node_index, w).panics
            /\ \A r \in DOMAIN tree_queue : EvictedAsStated(r, w)

\* some watermark evicts a node of a tree whose parent, not the root, stays
C16_Witness ==
    \E w \in 0..(MaxTime + 3), r \in DOMAIN tree_queue :
        \E n \in GoneNodes(tree_queue[r].val, w) :
            /\ tree_queue[r].val.node_queue[n].val.parent \in LeftNodes(tree_queue[r].val, w)
            /\ tree_queue[r].val.node_queue[n].val.parent # tree_queue[r].val.root_vertex

\* the node sets of the trees
TreeNodes(tq) == [r \in DOMAIN tq |-> DOMAIN tq[r].val.node_queue]

\* the batch is the one tuple key, a re-insert with a larger end of an edge
\* out of u whose target node is a child of the root of tree u, with the
\* interval end of the stored edge
ReinsertOfRootChild(key) ==
    LET ev == ExpireTrees(tree_queue, node_index, now).tq
        e == StoredEnd(StoredEdges(RemoveEdges(graph, now)), key[1], key[3], key[2])
        node == <<key[2], DFAStateMove(qdfa, 0, key[3])>>
    IN /\ DOMAIN stash = {key}
       /\ e # NoState
       /\ e < stash[key][2]
       /\ node[2] # NoState
       /\ key[1] \in DOMAIN ev
       /\ TreeContains(ev[key[1]].val, node)
       /\ ev[key[1]].val.node_queue[node].val.parent = ev[key[1]].val.root_vertex
       /\ GetInterval(ev[key[1]].val, node)[2] = e

C17_Step ==
    \A key \in DOMAIN stash :
        (IsClose /\ ReinsertOfRootChild(key)) =>
            LET node == <<key[2], DFAStateMove(qdfa, 0, key[3])>>
            IN /\ TreeNodes(tree_queue')
                     = TreeNodes(ExpireTrees(tree_queue, node_index, now).tq)
               /\ everEmitted' = everEmitted
               /\ StoredEnd(StoredEdges(graph'), key[1], key[3], key[2]) = stash[key][2]
               /\ GetInterval(tree_queue'[key[1]].val, node) = stash[key]
               /\ DFAIsFinalState(qdfa, node[2]) =>
                     \E i \in 1..Len(emitted') :
                         emitted'[i] = [root |-> key[1], vertex |-> node[1],
                                        state |-> node[2], interval |-> stash[key]]

\* C17: improved derivation.  A notification whose one tuple re-inserts, with
\* a larger end, a stored edge (u, l, v) while tree u holds (v, delta(0, l)) as
\* a child of the root with the stored end adds no tree node and reports no
\* new pair, raises the stored end, gives the node the tuple's interval and
\* records the node with that interval as a result.
C17_ImprovedDerivation == [][C17_Step]_vars

\* the interval tree_expand compares with the node's: the edge interval,
\* intersected with the candidate parent's unless the parent is the root
CandidateInterval(tree, node, child_ts) ==
    IF tree.root_vertex = node THEN child_ts
    ELSE Intersect(child_ts, GetInterval(tree, node))

\* tree_expand of the tuple (u, l, v, ts) at (u, s) in a tree that holds the
\* target node, applied to the tree and the graph a notification of time now
\* hands it
ExpandsAsStated(held, stored, u, s, l, v, ts) ==
    LET from == <<u, s>>
        to == <<v, DFAStateMove(qdfa, s, l)>>
        candidate == CandidateInterval(held, from, ts)
        outcomes == TreeExpand(held, InsertEdge(stored, u, l, v, ts).graph, u, s, v, to[2], ts)
    IN IF GetInterval(held, to)[2] < candidate[2]
       THEN \A o \in outcomes :
              /\ ~o.panics
              /\ Len(o.results) >= 1
              /\ o.results[1] = <<to, candidate>>
              /\ o.tree.node_queue[to].val.parent = from
              /\ o.tree.node_queue[to].val.incoming_edge_ts = ts
              /\ o.tree.node_queue[to].val.timestamp = candidate
              /\ o.tree.node_queue[to].prio = candidate[2]
       ELSE outcomes = {[tree |-> held, results |-> <<>>, panics |-> FALSE]}

C18_Step ==
    IsClose =>
        LET ev == ExpireTrees(tree_queue, node_index, now).tq
            left == RemoveEdges(graph, now)
        IN /\ \A r \in DOMAIN ev, u \in Vertices, v \in Vertices,
                 l \in DFAAlphabet(qdfa), s \in 0..(qdfa.num_states - 1),
                 w \in 1..3 :
                 ( /\ DFAStateMove(qdfa, s, l) # NoState
                   /\ ev[r].val.root_vertex = <<u, s>> \/ TreeContains(ev[r].val, <<u, s>>)
                   /\ TreeContains(ev[r].val, <<v, DFAStateMove(qdfa, s, l)>>)
                   /\ StoredEnd(StoredEdges(left), u, l, v) < now + w )
                 => ExpandsAsStated(ev[r].val, left, u, s, l, v, <<now, now + w>>)
           /\ \A r \in DOMAIN ev \cap DOMAIN tree_queue' :
                 \A n \in DOMAIN ev[r].val.node_queue
                            \cap DOMAIN tree_queue'[r].val.node_queue :
                    LET old == ev[r].val.node_queue[n].val
                        new == tree_queue'[r].val.node_queue[n].val
                    IN /\ old.timestamp[2] <= new.timestamp[2]
                       /\ old.timestamp[2] = new.timestamp[2] =>
                             /\ new.timestamp = old.timestamp
                             /\ new.parent = old.parent
                             /\ new.incoming_edge_ts = old.incoming_edge_ts

\* C18: alternate parent.  tree_expand of an edge into a node the tree holds
\* changes the node's parent, incoming-edge interval and interval exactly
\* when the candidate interval ends strictly after the node's interval;
\* otherwise the tree is unchanged and no result is given.  Over a
\* notification the interval end of a node that stays never decreases, and
\* a node whose end is the same has the same interval, parent and incoming
\* edge.
C18_AlternateParent == [][C18_Step]_vars

\* a node took a later interval while its child, derived before, stays: the
\* notification just run changed an existing node and reported it
C18_Witness ==
    /\ closed
    /\ \E r \in DOMAIN tree_queue :
         \E n \in DOMAIN tree_queue[r].val.node_queue :
            LET held == tree_queue[r].val.node_queue
            IN /\ \E c \in held[n].val.children \cap DOMAIN held :
                     /\ held[c].val.parent = n
                     /\ held[c].val.timestamp[1] < held[n].val.timestamp[1]
               /\ \E i \in 1..Len(emitted) :
                     /\ emitted[i].root = r
                     /\ emitted[i].vertex = n[1]
                     /\ emitted[i].interval = held[n].val.timestamp

UnknownKeys(time_index) == {key \in DOMAIN time_index : key[3] \notin DFAAlphabet(qdfa)}

\* the stash entry without the tuples of unknown labels
KnownTuples(time_index) ==
    [key \in DOMAIN time_index \ UnknownKeys(time_index) |-> time_index[key]]

KnownTable(edges_of) ==
    [l \in DOMAIN edges_of \cap DFAAlphabet(qdfa) |-> edges_of[l]]

\* the graph without the edges of unknown labels
KnownGraph(stored) ==
    [key \in DOMAIN stored |->
        [stored[key] EXCEPT !.val = [outgoing_edges |-> KnownTable(@.outgoing_edges),
                                     incoming_edges |-> KnownTable(@.incoming_edges)]]]

\* what a notification leaves in Delta and gives as output
DeltaOutcomes(outcomes) ==
    {[tq |-> o.tq, ni |-> o.ni, emitted |-> o.emitted, panics |-> o.panics] :
        o \in outcomes}

C19_Step ==
    (IsClose /\ UnknownKeys(stash) # {}) =>
        /\ \A key \in UnknownKeys(stash) : DFAGetTransitions(qdfa, key[3]) = {}
        /\ ~fault'
        /\ DeltaOutcomes(Notification(graph, tree_queue, node_index, stash, now))
             = DeltaOutcomes(Notification(KnownGraph(graph), tree_queue, node_index,
                                          KnownTuples(stash), now))
        /\ UnknownKeys(stash) = DOMAIN stash =>
              /\ tree_queue' = ExpireTrees(tree_queue, node_index, now).tq
              /\ node_index' = ExpireTrees(tree_queue, node_index, now).ni
              /\ emitted' = <<>>

\* C19: unknown labels are harmless.  A notification whose batch holds
\* tuples with a label outside the DFA alphabet does not fail; such a label
\* has no transition; the trees, tree_queue, node_index and the results are
\* those of the same notification without these tuples and without the
\* stored edges of unknown labels; when the batch holds only such tuples,
\* Delta is what the eviction left and nothing is emitted.
C19_UnknownLabelsHarmless == [][C19_Step]_vars

\* a notification just stored an edge of an unknown label and gave results
C19_Witness ==
    /\ closed
    /\ \E e \in StoredEdges(graph) :
          e[2] \notin DFAAlphabet(qdfa) /\ e[4][1] = now - 1
    /\ last_batch.drained = 2
    /\ Len(emitted) > 0

\* the string is syntactically invalid, uses bounded repetition or has an
\* empty path
RECURSIVE UsesBoundedRepetition(_)
UsesBoundedRepetition(p) ==
    \E i \in 1..Len(p) : \E j \in 1..Len(p[i]) :
        \/ p[i][j].mod = BoundedMod
        \/ p[i][j].sub # <<>> /\ UsesBoundedRepetition(p[i][j].sub)

C20_Step ==
    (/\ stage \in {"pest_ok", "pest_error"}
     /\ stage' \notin {"pest_ok", "pest_error"}
     /\ stage = "pest_error" \/ query = <<>> \/ UsesBoundedRepetition(query))
    => /\ stage' = "err"
       /\ ~fault'
       /\ mdfa' = NoDFA

\* C20: compile errors are values.  For a query string that is syntactically
\* invalid, uses bounded repetition or has an empty path, parse_rpq returns
\* an error to its caller, does not panic, and gives no DFA.
C20_CompileErrorsAreValues == [][C20_Step]_vars

OverAlphabet(w, alphabet) == \A i \in 1..Len(w) : w[i] \in alphabet

\* the outcome of accept on w is as stated, given the alphabet of the automaton
AbortsOnlyOffAlphabet(outcome, w, alphabet) ==
    IF OverAlphabet(w, alphabet) THEN outcome \in {"true", "false"}
    ELSE outcome = "panic"

\* C21: alphabet mismatch is a programming error.  On the automata the
\* compiler builds, NFA.accept and DFA.accept panic on every word with a
\* label outside the automaton's alphabet, and on a word over the alphabet
\* they return a boolean (false for a missing transition) without a panic.
C21_AlphabetMismatchPanics ==
    /\ stage \in {"nfa", "dfa", "min"} =>
          \A w \in Words :
             /\ AbortsOnlyOffAlphabet(NFAAcceptOutcome(nfa, w), w, NFAAlphabet(nfa))
             /\ OverAlphabet(w, NFAAlphabet(nfa)) =>
                   (NFAAcceptOutcome(nfa, w) = "true") = NFAAccept(nfa, w)
    /\ stage \in {"dfa", "min"} =>
          \A w \in Words :
             AbortsOnlyOffAlphabet(DFAAcceptOutcome(dfa, w), w, DFAAlphabet(dfa))
    /\ stage = "min" =>
          \A w \in Words :
             /\ AbortsOnlyOffAlphabet(DFAAcceptOutcome(mdfa, w), w, DFAAlphabet(mdfa))
             /\ OverAlphabet(w, DFAAlphabet(mdfa)) =>
                   (DFAAcceptOutcome(mdfa, w) = "true") = DFAAccept(mdfa, w)

\* the state a DFA is in after the word, NoState after a missing transition
RECURSIVE DFAEnd(_, _, _, _)
DFAEnd(D, current, w, i) ==
    IF i > Len(w) \/ current = NoState THEN current
    ELSE DFAEnd(D, DFAStateMove(D, current, w[i]), w, i + 1)

\* a minimized DFA with a word off its alphabet and a word over it that runs
\* into a missing transition
C21_Witness ==
    /\ stage = "min"
    /\ \E w \in Words : ~OverAlphabet(w, DFAAlphabet(mdfa)) /\ DFAAcceptOutcome(mdfa, w) = "panic"
    /\ \E w \in Words :
          /\ OverAlphabet(w, DFAAlphabet(mdfa))
          /\ DFAEnd(mdfa, 0, w, 1) = NoState
          /\ DFAAcceptOutcome(mdfa, w) = "false"

\* the least priority stored in a queue that is not empty
LeastStored(q, p) == (\E k \in DOMAIN q : q[k].prio = p) /\ \A k \in DOMAIN q : p <= q[k].prio

Others(q, key) == [k \in DOMAIN q \ {key} |-> q[k]]

C22_Step ==
    LET call == last_batch'
    IN /\ call.op = "push" =>
            /\ call.key \in DOMAIN graph'
            /\ graph'[call.key] = [val |-> call.val, prio |-> call.prio]
            /\ Others(graph', call.key) = Others(graph, call.key)
       /\ call.op = "change_priority" =>
            /\ DOMAIN graph' = DOMAIN graph
            /\ call.key \in DOMAIN graph =>
                  graph'[call.key] = [val |-> graph[call.key].val, prio |-> call.prio]
            /\ Others(graph', call.key) = Others(graph, call.key)
       /\ call.op = "try_decrease_priority" =>
            IF call.key \in DOMAIN graph /\ graph[call.key].prio > call.prio
            THEN /\ graph'[call.key] = [val |-> graph[call.key].val, prio |-> call.prio]
                 /\ Others(graph', call.key) = Others(graph, call.key)
            ELSE graph' = graph
       /\ call.op = "remove" => graph' = Others(graph, call.key)
       /\ call.op \in {"peek", "pop"} =>
            IF DOMAIN graph = {} THEN call.ret = PQNone /\ graph' = graph
            ELSE /\ call.ret.key \in DOMAIN graph
                 /\ graph[call.ret.key] = [val |-> call.ret.val, prio |-> call.ret.prio]
                 /\ LeastStored(graph, call.ret.prio)
                 /\ graph' = IF call.op = "pop" THEN Others(graph, call.ret.key) ELSE graph

\* C22: MinPQIndex is a keyed map with minimum-priority extraction.  Under
\* any sequence of its operations a key has one entry; push sets the value
\* and the priority of its key, present or not; change_priority sets the
\* priority of a present key; try_decrease_priority changes nothing when
\* the key is absent or its priority is <= the argument and lowers the
\* priority otherwise; peek and pop return an entry of least priority and
\* pop removes it; no operation touches another key.
C22_KeyedMinQueue == [][C22_Step]_vars

\* the positions of the tuples of a key in the log
ArrivalsOf(log, key) == {i \in 1..Len(log) : log[i][1] = key}

\* the first tuple of the key with the largest end
FirstLargest(log, key) ==
    LET at == ArrivalsOf(log, key)
        first == CHOOSE i \in at :
                     /\ \A j \in at : log[j][2][2] <= log[i][2][2]
                     /\ \A j \in at : log[j][2][2] = log[i][2][2] => i <= j
    IN log[first][2]

\* the stash entry holds one interval for every key received, that of the
\* first tuple with the largest end
StashHoldsLargest(time_index, log) ==
    /\ DOMAIN time_index = {log[i][1] : i \in 1..Len(log)}
    /\ \A key \in DOMAIN time_index : time_index[key] = FirstLargest(log, key)

C23_Step ==
    /\ StashHoldsLargest(stash, arrived)
    /\ StashHoldsLargest(stash', arrived')
    /\ ~IsClose =>
          /\ graph' = graph
          /\ tree_queue' = tree_queue
          /\ node_index' = node_index
          /\ everEmitted' = everEmitted
    /\ IsClose =>
          /\ DOMAIN stash' = {}
          /\ \A key \in DOMAIN stash :
                StoredEnd(StoredEdges(graph'), key[1], key[3], key[2]) >= stash[key][2]

\* C23: stash.  For the open time and every (source, target, label) received
\* at it the stash holds one interval, that of the first tuple with the
\* largest end among the tuples of the key; a step that is not the close of
\* the time changes neither graph nor trees nor Delta and gives no result;
\* the close empties the stash entry and the graph then holds every stashed
\* key.
C23_Stash == [][C23_Step]_vars

\* after a close, two tuples of one key with the same end and different
\* starts were received and the first is stashed
C23_Witness ==
    /\ now > 1
    /\ DOMAIN graph # {}
    /\ Len(arrived) = 2
    /\ arrived[1][1] = arrived[2][1]
    /\ arrived[1][2][2] = arrived[2][2][2]
    /\ arrived[1][2] # arrived[2][2]
    /\ stash[arrived[1][1]] = arrived[1][2]

\* the edges of E that outlive the watermark
Outliving(E, low_watermark) == {e \in E : e[4][2] > low_watermark}

\* the tuples of the batch that insert_edge reports as grown over the edges E
GrownOver(E, batch) ==
    {key \in DOMAIN batch : StoredEnd(E, key[1], key[3], key[2]) < batch[key][2]}

\* the edges left by inserting the batch into the edges E: a grown tuple
\* gives its triple the tuple's end, and the tuple's start as well where the
\* triple was absent or push swaps the stored item
EdgesAfterBatch(E, batch) ==
    {e \in E : <<e[1], e[3], e[2]>> \notin GrownOver(E, batch)}
    \cup {<<key[1], key[3], key[2],
            <<IF pq_replaces \/ StoredEnd(E, key[1], key[3], key[2]) = NoState
              THEN batch[key][1]
              ELSE (CHOOSE e \in E : e[1] = key[1] /\ e[2] = key[3] /\ e[3] = key[2])[4][1],
              batch[key][2]>>>> : key \in GrownOver(E, batch)}

C24_Step ==
    /\ now' >= now
    /\ ~IsClose =>
          /\ graph' = graph
          /\ tree_queue' = tree_queue
          /\ node_index' = node_index
          /\ everEmitted' = everEmitted
    /\ IsClose =>
          LET outlived == Outliving(StoredEdges(graph), now)
              evicted == ExpireTrees(tree_queue, node_index, now)
              start == [tq |-> evicted.tq, ni |-> evicted.ni, emitted |-> <<>>,
                        panics |-> evicted.panics]
          IN /\ StoredEdges(graph') = EdgesAfterBatch(outlived, stash)
             /\ \E steps \in Steps(stash, GrownOver(outlived, stash)) :
                   [tq |-> tree_queue', ni |-> node_index', emitted |-> emitted',
                    panics |-> fault'] \in ProcessTransitions(start, graph', steps)

\* C24: ordering.  The notification of a time evicts the graph and the trees
\* for that time before it inserts a tuple of the time (the stored edges are
\* the batch inserted into the edges that outlive the time), inserts every
\* tuple before it expands a tree (the trees and results are those of
\* expanding the evicted trees over the graph that holds the whole batch),
\* and the times are closed in increasing order, no other step touching
\* graph, trees or results.
C24_Ordering == [][C24_Step]_vars

\* a notification re-inserted an edge that expired at its time, with a
\* second tuple, and gave results
C24_Witness ==
    /\ closed
    /\ last_batch.drained = 2
    /\ last_batch.processed = 2
    /\ Len(emitted) >= 2
    /\ \E e \in StoredEdges(graph) : e[4][1] = now - 1 /\ e[4][2] > now
    /\ now > 2

\* C25: empty intervals are never stored.  In every state no edge of the
\* graph, in the forward or the backward tables, and no node of a spanning
\* tree has an interval [a, a) whose start equals its end.
C25_NoEmptyIntervalStored ==
    /\ \A e \in StoredEdges(graph) \cup StoredInEdges(graph) : e[4][1] # e[4][2]
    /\ \A r \in DOMAIN tree_queue :
          \A n \in DOMAIN tree_queue[r].val.node_queue :
             GetInterval(tree_queue[r].val, n)[1] # GetInterval(tree_queue[r].val, n)[2]

\* the interval is the one a tuple of window size 0 received at time t has
ZeroWidthAt(interval, t) == interval = <<t, t>>

C26_Step ==
    IsClose =>
        /\ \A key \in DOMAIN stash :
              ZeroWidthAt(stash[key], now) =>
                 \E e \in StoredEdges(graph') :
                    /\ <<e[1], e[3], e[2]>> = key
                    /\ e[4][2] >= now
                    /\ e[4][2] = now => e[4] = stash[key]
        /\ \A e \in StoredEdges(graph') \cup StoredInEdges(graph') :
              \/ e[4][2] > now
              \/ /\ <<e[1], e[3], e[2]>> \in DOMAIN stash
                 /\ e[4] = stash[<<e[1], e[3], e[2]>>]
                 /\ ZeroWidthAt(e[4], now)
        /\ \A r \in DOMAIN tree_queue' :
              \A n \in DOMAIN tree_queue'[r].val.node_queue :
                 \/ GetInterval(tree_queue'[r].val, n)[2] > now
                 \/ /\ ZeroWidthAt(GetInterval(tree_queue'[r].val, n), now)
                    /\ \E key \in DOMAIN stash : ZeroWidthAt(stash[key], now)
        /\ \A i \in 1..Len(emitted') :
              \/ emitted'[i].interval[2] > now
              \/ /\ ZeroWidthAt(emitted'[i].interval, now)
                 /\ \E key \in DOMAIN stash : ZeroWidthAt(stash[key], now)

\* C26: zero-width window.  A tuple of timestamp t and window size 0 has the
\* interval [t, t); the close of t stores it, and after the close of a later
\* time neither a stored edge nor a tree node nor a result has an interval
\* that ends at or before that time, but for the tuples [t', t') of the
\* time t' just closed and what is derived from them.
C26_ZeroWidthWindow == [][C26_Step]_vars

\* an edge [1, 1) was stored with a tree node at the close of time 1 and is
\* gone, with the node, after the close of time 2
C26_Witness ==
    /\ closed
    /\ now = 3
    /\ <<1, 1>> \in everEmitted
    /\ \A e \in StoredEdges(graph) : e[4][2] > 2
    /\ \A r \in DOMAIN tree_queue :
          \A n \in DOMAIN tree_queue[r].val.node_queue :
             GetInterval(tree_queue[r].val, n)[2] > 2
    /\ DOMAIN graph # {}
    /\ \A i \in 1..Len(emitted) : emitted[i].root # 1

\* the tuples of the batch that are self-loops, are handed to tuple_to_process
\* by the notification of the open time, and lead from state 0 to a final state
ProcessedFinalLoops ==
    {key \in GrownOver(Outliving(StoredEdges(graph), now), stash) :
        /\ key[1] = key[2]
        /\ DFAStateMove(qdfa, 0, key[3]) # NoState
        /\ DFAIsFinalState(qdfa, DFAStateMove(qdfa, 0, key[3]))}

\* the results of the sequence all for the pair (u, u) with the interval
ResultsOfLoop(all, u, interval) ==
    LET Match(e) == e.root = u /\ e.vertex = u /\ e.interval = interval
    IN SelectSeq(all, Match)

C27_Step ==
    IsClose =>
        \A key \in ProcessedFinalLoops :
            /\ ~fault'
            /\ Len(ResultsOfLoop(emitted', key[1], stash[key])) = 1

\* C27: self-loop.  When a notification processes a tuple (u, l, u, I) and
\* delta(0, l) is a final state, its results hold (u, u, I) exactly once and
\* the expansion ends without failing.
C27_SelfLoop == [][C27_Step]_vars

\* the targets the three views of D give for state s and label l
TargetsByLabel(D, s, l) == {p[2] : p \in {x \in DFAGetTransitions(D, l) : x[1] = s}}

TargetsByState(D, s, l) == {p[2] : p \in {x \in DFAGetOutgoingTransitions(D, s) : x[1] = l}}

TargetsByMove(D, s, l) ==
    IF DFAStateMove(D, s, l) = NoState THEN {} ELSE {DFAStateMove(D, s, l)}

ViewsAgree(D) ==
    \A s \in DFAStates(D), l \in DFAAlphabet(D) \cup {"a", "b"} :
        /\ Cardinality(TargetsByLabel(D, s, l)) <= 1
        /\ TargetsByLabel(D, s, l) = TargetsByState(D, s, l)
        /\ TargetsByState(D, s, l) = TargetsByMove(D, s, l)

\* C28: determinism of the DFA views.  In the DFA of determinize and in the
\* DFA of minimize, which is the one parse_rpq returns, get_transitions has
\* at most one target for a state and a label, and get_outgoing_transitions
\* and state_move give that same target.
C28_DeterministicViews ==
    /\ stage \in {"dfa", "min"} => ViewsAgree(dfa)
    /\ stage = "min" => ViewsAgree(mdfa)

\* the interval add_vertex and tree_expand derive for node n of the tree from
\* its parent and its stored incoming edge
DerivedInterval(held, n) ==
    LET stored == held.node_queue[n].val
    IN IF stored.parent = held.root_vertex THEN stored.incoming_edge_ts
       ELSE Intersect(stored.incoming_edge_ts, GetInterval(held, stored.parent))

\* C29: invariant T1.  After every close every node of every tree has the
\* interval of its incoming edge when its parent is the root, and otherwise
\* the intersection of that interval with its parent's interval, start and
\* end, the parent being a node of the tree.
C29_T1 ==
    closed =>
        \A r \in DOMAIN tree_queue :
           \A n \in DOMAIN tree_queue[r].val.node_queue :
              LET held == tree_queue[r].val
              IN /\ \/ held.node_queue[n].val.parent = held.root_vertex
                    \/ TreeContains(held, held.node_queue[n].val.parent)
                 /\ GetInterval(held, n) = DerivedInterval(held, n)

\* following the parent fields from node n of the tree reaches the root in at
\* most fuel steps; the key (r, 0) stands for the root wherever the code
\* reads a parent
RECURSIVE ReachesRoot(_, _, _)
ReachesRoot(held, n, fuel) ==
    LET up == held.node_queue[n].val.parent
    IN IF up = held.root_vertex THEN TRUE
       ELSE IF fuel = 0 \/ ~TreeContains(held, up) THEN FALSE
       ELSE ReachesRoot(held, up, fuel - 1)

\* the nodes of the tree whose parent field is p
ChildrenByParent(held, p) ==
    {c \in DOMAIN held.node_queue : held.node_queue[c].val.parent = p}

\* the children sets kept for the key p: the root's own set for the key of
\* the root, together with the set of a stored node of that key
ChildrenKept(held, p) ==
    (IF p = held.root_vertex THEN held.root_node.children ELSE {})
    \cup (IF TreeContains(held, p) THEN held.node_queue[p].val.children ELSE {})

WellFormedTree(held) ==
    /\ \A n \in DOMAIN held.node_queue :
          /\ \/ held.node_queue[n].val.parent = held.root_vertex
             \/ TreeContains(held, held.node_queue[n].val.parent)
          /\ ReachesRoot(held, n, Cardinality(DOMAIN held.node_queue))
    /\ \A p \in DOMAIN held.node_queue \cup {held.root_vertex} :
          ChildrenKept(held, p) = ChildrenByParent(held, p)

\* C30: invariant T2.  In every state every tree is acyclic, the parent of
\* every node is the root or a node of the tree, and c is in the children
\* of p exactly when the parent of c is p.
C30_T2 == \A r \in DOMAIN tree_queue : WellFormedTree(tree_queue[r].val)

\* a node that an edge stored at time 1 gave to the tree was moved, at the
\* close of time 2, below a parent that is not the root, after the eviction
\* of that time
C30_Witness ==
    /\ closed
    /\ now = 3
    /\ \E r \in DOMAIN tree_queue :
          \E n \in DOMAIN tree_queue[r].val.node_queue :
             LET stored == tree_queue[r].val.node_queue[n].val
             IN /\ stored.parent # tree_queue[r].val.root_vertex
                /\ stored.parent # n
                /\ stored.incoming_edge_ts[1] = 1
                /\ stored.timestamp[1] = 2
                /\ n \in ChildrenKept(tree_queue[r].val, stored.parent)
                /\ n \notin tree_queue[r].val.root_node.children

\* a stored edge of the product graph from pair p to pair n has the interval
ProductEdgeStored(E, p, n, interval) ==
    \E e \in E :
        /\ e[1] = p[1]
        /\ e[3] = n[1]
        /\ <<p[2], n[2]>> \in DFAGetTransitions(qdfa, e[2])
        /\ e[4] = interval

\* C31: invariant T3.  After every close, for every node n of every tree,
\* with parent p, the graph stores an edge of the product graph from p to n
\* whose interval is the incoming-edge interval stored in n.
C31_T3 ==
    closed =>
        \A r \in DOMAIN tree_queue :
           \A n \in DOMAIN tree_queue[r].val.node_queue :
              ProductEdgeStored(StoredEdges(graph), tree_queue[r].val.node_queue[n].val.parent,
                                n, tree_queue[r].val.node_queue[n].val.incoming_edge_ts)

\* C32: invariant G2.  In every state the edges (u, l, v, start, end) of the
\* forward tables are the edges of the backward tables.
C32_G2 == StoredEdges(graph) = StoredInEdges(graph)

\* after the eviction of time 2 the graph holds a self-loop that was stored
\* at time 1 and whose end a tuple of time 2 raised, besides another edge
C32_Witness ==
    /\ closed
    /\ now = 3
    /\ \E e \in StoredEdges(graph) : e[1] = e[3] /\ e[4] = <<1, 4>>
    /\ Cardinality(StoredInEdges(graph)) >= 2

\* the ends of the edges of g that leave or enter vertex v
IncidentEnds(g, v) ==
    {e[4][2] : e \in {x \in StoredEdges(g) : x[1] = v}}
    \cup {e[4][2] : e \in {x \in StoredInEdges(g) : x[3] = v}}

\* C33: invariant G3.  In every state the priority of every vertex of the
\* graph's node index is the least end of the edges that leave or enter it.
C33_G3 ==
    \A v \in DOMAIN graph :
        /\ IncidentEnds(graph, v) # {}
        /\ \A x \in IncidentEnds(graph, v) : graph[v].prio <= x
        /\ graph[v].prio \in IncidentEnds(graph, v)

\* the least interval end of the nodes of a tree, u64::MAX for a tree with
\* no node
MinExpiry(held) ==
    IF DOMAIN held.node_queue = {} THEN U64_MAX ELSE MinEnd(held, DOMAIN held.node_queue)

\* C34: invariant D2.  After every close the priority of every tree in
\* tree_queue is the least interval end of its nodes (u64::MAX with no node),
\* and for every watermark w a tree holding a node whose end is <= w is
\* among get_expired_trees(w).
C34_D2 ==
    closed =>
        \A r \in DOMAIN tree_queue :
            /\ tree_queue[r].prio = MinExpiry(tree_queue[r].val)
            /\ \A w \in 0..(MaxTime + 4) :
                  (\E n \in DOMAIN tree_queue[r].val.node_queue :
                        GetInterval(tree_queue[r].val, n)[2] <= w)
                     => r \in GetExpiredTrees(tree_queue, w)

\* the close of time 2 gave a tree a least end above the one it had: a node
\* kept from time 1 was raised and no node of the tree ends before time 5
C34_Witness ==
    /\ closed
    /\ now = 3
    /\ \E r \in DOMAIN tree_queue :
          /\ tree_queue[r].prio = 5
          /\ Cardinality(DOMAIN tree_queue[r].val.node_queue) >= 2
          /\ \E n \in DOMAIN tree_queue[r].val.node_queue :
                tree_queue[r].val.node_queue[n].val.incoming_edge_ts = <<1, 5>>

(***************************************************************************)
(* Reference for C35: the notification with a tree_expand that, after it   *)
(* raised the end of a node, enumerates all outgoing edges of the node     *)
(***************************************************************************)
RECURSIVE ExpandLoopAll(_, _, _, _)
ExpandLoopAll(tree, g, queue, reachability_results) ==
    IF queue = <<>>
    THEN {[tree |-> tree, results |-> reachability_results, panics |-> FALSE]}
    ELSE
      LET node == queue[1][1]
          child == queue[1][2]
          child_ts == queue[1][3]
          rest == Tail(queue)
          is_root == tree.root_vertex = node
      IN
      IF ~(is_root \/ (TreeContains(tree, node)
                        /\ Overlaps(GetInterval(tree, node), child_ts)))
      THEN ExpandLoopAll(tree, g, rest, reachability_results)
      ELSE IF ~TreeContains(tree, child)
      THEN
        LET added == AddVertex(tree, child, child_ts, node)
            child_interval == GetInterval(added, child)
            neighbours == {{x \in grp : Overlaps(child_interval, x[2])} :
                             grp \in GetOutgoingEdges(g, qdfa, child[1], child[2])}
        IN UNION {ExpandLoopAll(added, g, Enqueue(rest, child, ord),
                             Append(reachability_results, <<child, child_interval>>)) :
                    ord \in GroupOrders(neighbours)}
      ELSE
        LET new_interval == IF is_root THEN child_ts
                            ELSE Intersect(child_ts, GetInterval(tree, node))
            old_expiry_timestamp == GetInterval(tree, child)[2]
        IN
        IF old_expiry_timestamp < new_interval[2]
        THEN
          IF UpdateParentPanics(tree, child)
          THEN {[tree |-> tree, results |-> reachability_results, panics |-> TRUE]}
          ELSE
            LET moved == UpdateNodeExpiry(
                            SetInterval(UpdateParent(tree, child, node, child_ts),
                                        child, new_interval),
                            child, new_interval[2])
                neighbours == GetOutgoingEdges(g, qdfa, child[1], child[2])
            IN UNION {ExpandLoopAll(moved, g, Enqueue(rest, child, ord),
                                 Append(reachability_results, <<child, new_interval>>)) :
                        ord \in GroupOrders(neighbours)}
        ELSE ExpandLoopAll(tree, g, rest, reachability_results)

TreeExpandAll(tree, g, source_vertex, source_state, target_vertex, target_state, edge_ts) ==
    ExpandLoopAll(tree, g,
               <<<<<<source_vertex, source_state>>, <<target_vertex, target_state>>, edge_ts>>>>,
               <<>>)

ExpandTreeAll(st, g, tree_root, step) ==
    IF st.panics THEN {st}
    ELSE IF ~DeltaContains(st.tq, tree_root) THEN {[st EXCEPT !.panics = TRUE]}
    ELSE
      {LET finals == SelectSeq(o.results, IsFinalResult)
       IN [tq |-> UpdateTreeExpiry([st.tq EXCEPT ![tree_root].val = o.tree],
                                   tree_root, GetMinTimestamp(o.tree)),
           ni |-> st.ni \cup {<<x[1][1], x[1][2], tree_root>> : x \in Range(o.results)},
           emitted |-> st.emitted \o
                       [i \in 1..Len(finals) |->
                           [root |-> tree_root, vertex |-> finals[i][1][1],
                            state |-> finals[i][1][2], interval |-> finals[i][2]]],
           panics |-> o.panics] :
         o \in TreeExpandAll(st.tq[tree_root].val, g, step.source, step.source_state,
                          step.target, step.target_state, step.interval)}

RECURSIVE ExpandTreesAll(_, _, _, _)
ExpandTreesAll(st, g, roots, step) ==
    IF roots = <<>> THEN {st}
    ELSE UNION {ExpandTreesAll(s2, g, Tail(roots), step) : s2 \in ExpandTreeAll(st, g, roots[1], step)}

ProcessTransitionAll(st, g, step) ==
    LET created == IF step.source_state = 0 /\ ~DeltaContains(st.tq, step.source)
                   THEN AddSpanningTree(st.ni, st.tq, step.source)
                   ELSE [tq |-> st.tq, ni |-> st.ni]
        st1 == [st EXCEPT !.tq = created.tq, !.ni = created.ni]
        updateable_trees == GetUpdatableTrees(st1.ni, step.source, step.source_state)
    IN UNION {ExpandTreesAll(st1, g, ord, step) : ord \in Perms(updateable_trees)}

RECURSIVE ProcessTransitionsAll(_, _, _)
ProcessTransitionsAll(st, g, steps) ==
    IF steps = <<>> THEN {st}
    ELSE UNION {ProcessTransitionsAll(s2, g, Tail(steps)) :
                  s2 \in ProcessTransitionAll(st, g, steps[1])}

NotificationAll(g, tq, ni, time_index, low_watermark) ==
    LET pruned == RemoveEdges(g, low_watermark)
        expired == ExpireTrees(tq, ni, low_watermark)
        inserted == InsertTuples(pruned, time_index, SetToSeq(DOMAIN time_index), {})
        st0 == [tq |-> expired.tq, ni |-> expired.ni, emitted |-> <<>>,
                panics |-> expired.panics]
    IN IF expired.panics
       THEN {[graph |-> pruned, tq |-> tq, ni |-> ni, emitted |-> <<>>, processed |-> 0,
              panics |-> TRUE]}
       ELSE {[graph |-> inserted.graph, tq |-> st.tq, ni |-> st.ni,
              emitted |-> st.emitted, processed |-> Cardinality(inserted.grown),
              panics |-> st.panics] :
               st \in UNION {ProcessTransitionsAll(st0, inserted.graph, steps) :
                               steps \in Steps(time_index, inserted.grown)}}

\* the nodes of every tree of tq with their interval ends
NodeEnds(tq) ==
    [r \in DOMAIN tq |->
        [n \in DOMAIN tq[r].val.node_queue |-> GetInterval(tq[r].val, n)[2]]]

C35_Step ==
    IsClose =>
        /\ {NodeEnds(o.tq) : o \in Notification(graph, tree_queue, node_index, stash, now)}
             = {NodeEnds(o.tq) : o \in NotificationAll(graph, tree_queue, node_index, stash, now)}
        /\ \E o \in NotificationAll(graph, tree_queue, node_index, stash, now) :
              NodeEnds(o.tq) = NodeEnds(tree_queue')

\* C35: propagation pruning is lossless.  The trees a notification leaves,
\* with the interval end of every node, are those it would leave if
\* tree_expand, after raising the end of a node, enumerated all outgoing
\* edges of the node instead of those with an end above the old one.
C35_PruningLossless == [][C35_Step]_vars

\* the last close raised the interval of a node and left a child of it,
\* whose incoming edge ends no later than the node's old end, untouched
C35_Witness ==
    /\ closed
    /\ now = 3
    /\ \E r \in DOMAIN tree_queue :
         \E n \in DOMAIN tree_queue[r].val.node_queue :
            LET kept == tree_queue[r].val.node_queue
            IN /\ kept[n].val.timestamp[1] = 2
               /\ \E i \in 1..Len(emitted) :
                     emitted[i].root = r /\ emitted[i].vertex = n[1] /\ emitted[i].state = n[2]
               /\ \E c \in DOMAIN kept :
                     /\ c # n
                     /\ kept[c].val.parent = n
                     /\ kept[c].val.timestamp[1] = 1
                     /\ kept[c].val.incoming_edge_ts[2] < kept[n].val.timestamp[2]
                     /\ \A i \in 1..Len(emitted) :
                           ~(emitted[i].root = r /\ emitted[i].vertex = c[1]
                               /\ emitted[i].state = c[2])

\* the pairs <<<<vertex, state>>, interval>> that get_outgoing_edges yields
OutgoingPairs(g, vertex, state) ==
    {<<x[1], x[2]>> : x \in UNION GetOutgoingEdges(g, qdfa, vertex, state)}

\* C36: get_incoming_edges is symmetric to get_outgoing_edges.  For every
\* backward table the DFA can have, ((x, a), i) is among the outgoing edges
\* of (u, b) exactly when ((u, b), i) is among the incoming edges of (x, a).
C36_IncomingSymmetric ==
    \A backward \in DFABackwardTables(qdfa) :
        \A u \in Vertices, x \in Vertices, b \in DFAStates(qdfa), a \in DFAStates(qdfa) :
            \A i \in {e[4] : e \in StoredEdges(graph)} :
                <<<<x, a>>, i>> \in OutgoingPairs(graph, u, b)
                    <=> <<<<u, b>>, i>> \in GetIncomingEdges(graph, backward, x, a)

\* C37: no internal fault is reachable.  No notification fails: the tree
\* handed to remove_spanning_tree is empty, every root that node_index
\* returns has a tree in tree_queue, and every parent read by expiry and by
\* update_parent is the root or a node held by the tree (or popped by the
\* same expiry).
C37_NoInternalFault ==
    /\ ~fault
    /\ \A x \in node_index : x[3] \in DOMAIN tree_queue
    /\ \A r \in DOMAIN tree_queue :
          /\ ~TreeIsEmpty(tree_queue[r].val)
          /\ \A w \in 0..(MaxTime + 4) : ~ExpiryPanics(tree_queue[r].val, w)
          /\ \A n \in DOMAIN tree_queue[r].val.node_queue :
                ~UpdateParentPanics(tree_queue[r].val, n)

\* the eviction of time 2 removed a tree that had given results and kept
\* another one, in which a node hangs below a node that is not the root
C37_Witness ==
    /\ closed
    /\ now = 3
    /\ \E x \in everEmitted : x[1] \notin DOMAIN tree_queue
    /\ \E r \in DOMAIN tree_queue :
          \E n \in DOMAIN tree_queue[r].val.node_queue :
             tree_queue[r].val.node_queue[n].val.parent # tree_queue[r].val.root_vertex

\* the nodes of the tree on the way from node n up to the root, n excluded
RECURSIVE AncestorsOf(_, _, _)
AncestorsOf(held, n, fuel) ==
    LET up == held.node_queue[n].val.parent
    IN IF up = held.root_vertex \/ fuel = 0 \/ ~TreeContains(held, up) THEN {}
       ELSE {up} \cup AncestorsOf(held, up, fuel - 1)

\* C38: in every state a node whose parent is not the root ends no later
\* than its parent, and so no later than any node between it and the root.
C38_ParentOutlivesChild ==
    \A r \in DOMAIN tree_queue :
       \A n \in DOMAIN tree_queue[r].val.node_queue :
          LET held == tree_queue[r].val
          IN /\ held.node_queue[n].val.parent # held.root_vertex =>
                   /\ TreeContains(held, held.node_queue[n].val.parent)
                   /\ GetInterval(held, n)[2]
                         <= GetInterval(held, held.node_queue[n].val.parent)[2]
             /\ \A anc \in AncestorsOf(held, n, Cardinality(DOMAIN held.node_queue)) :
                   GetInterval(held, n)[2] <= GetInterval(held, anc)[2]

\* after the close of time 2 a node below a node that is not the root ends
\* before it, the upper node having been raised by that close
C38_Witness ==
    /\ closed
    /\ now = 3
    /\ \E r \in DOMAIN tree_queue :
         \E n \in DOMAIN tree_queue[r].val.node_queue :
            LET held == tree_queue[r].val
                up == held.node_queue[n].val.parent
            IN /\ up # held.root_vertex
               /\ up # n
               /\ TreeContains(held, up)
               /\ GetInterval(held, up)[1] = 2
               /\ GetInterval(held, n)[2] < GetInterval(held, up)[2]

\* a stored edge from a vertex to itself, and two stored edges there and back
HasSelfLoop(g) == \E e \in GraphEdges(g) : e[1] = e[3]

HasTwoCycle(g) ==
    \E e \in GraphEdges(g), f \in GraphEdges(g) : e[1] # e[3] /\ f[1] = e[3] /\ f[3] = e[1]

\* a step of the loop puts items in the queue only for the child of the item
\* it took, and only if that child was added or its end became larger
C39_Step ==
    (expand_queue # <<>> /\ expand_queue' # Tail(expand_queue)) =>
        LET child == expand_queue[1][2]
            before == tree_queue[ExpandRoot].val
            after == tree_queue'[ExpandRoot].val
        IN /\ Len(expand_queue') >= Len(expand_queue)
           /\ SubSeq(expand_queue', 1, Len(expand_queue) - 1) = Tail(expand_queue)
           /\ \A i \in Len(expand_queue)..Len(expand_queue') : expand_queue'[i][1] = child
           /\ TreeContains(after, child)
           /\ \/ ~TreeContains(before, child)
              \/ GetInterval(before, child)[2] < GetInterval(after, child)[2]

\* C39: a call of tree_expand returns (its work queue becomes empty, or the
\* call panics), whatever the stored edges and the DFA, and an iteration
\* enqueues only after a node was created or its end strictly increased.
C39_TreeExpandTerminates ==
    /\ [][C39_Step]_vars
    /\ (expand_queue # <<>>) ~> (expand_queue = <<>> \/ fault)

\* a call has returned on a graph with a self-loop and a cycle of two edges,
\* having raised a node it had created
C39_Witness ==
    /\ expand_queue = <<>>
    /\ ~fault
    /\ "results" \in DOMAIN last_batch
    /\ HasSelfLoop(graph)
    /\ HasTwoCycle(graph)
    /\ \E i \in 1..Len(last_batch.results), j \in 1..Len(last_batch.results) :
          i < j /\ last_batch.results[i][1] = last_batch.results[j][1]

\* what the claim compares of an outcome of a notification: the nodes of
\* every tree with their interval ends, and the <<root, endpoint>> pairs given
OrderView(o) ==
    <<NodeEnds(o.tq), {<<e.root, e.vertex>> : e \in Range(o.emitted)}>>

\* the interval of every stashed tuple and of every stored edge that the
\* eviction of time t keeps contains t
IntervalsContain(g, time_index, t) ==
    /\ \A key \in DOMAIN time_index : time_index[key][1] <= t /\ t < time_index[key][2]
    /\ \A e \in StoredEdges(RemoveEdges(g, t)) : e[4][1] <= t /\ t < e[4][2]

C40_Step ==
    (IsClose /\ IntervalsContain(graph, stash, now)) =>
        /\ Cardinality({OrderView(o) :
                          o \in Notification(graph, tree_queue, node_index, stash, now)}) = 1
        /\ OrderView([tq |-> tree_queue', emitted |-> emitted'])
             \in {OrderView(o) : o \in Notification(graph, tree_queue, node_index, stash, now)}

\* C40: order independence.  When every interval contains the closed time,
\* all the orders in which a notification can take the tuples of the batch,
\* the transitions of a label, the trees of a source pair and the outgoing
\* edges of a node leave the same trees with the same nodes and interval
\* ends, and give the same set of <<root, endpoint>> pairs.
C40_OrderIndependent == [][C40_Step]_vars

\* the last close processed two tuples, there are two trees with a node in
\* both, and it gave results for both roots
C40_Witness ==
    /\ closed
    /\ ~fault
    /\ "processed" \in DOMAIN last_batch
    /\ last_batch.processed = 2
    /\ \E r \in DOMAIN tree_queue, q \in DOMAIN tree_queue :
          /\ r # q
          /\ \E n \in DOMAIN tree_queue[r].val.node_queue : TreeContains(tree_queue[q].val, n)
          /\ \E i \in 1..Len(emitted), j \in 1..Len(emitted) :
                emitted[i].root = r /\ emitted[j].root = q

====
